---- MODULE Spec2Model ----
(***************************************************************************)
(* Model of the squall chat server's message plane: the stream auth        *)
(* interceptor, the Stream handler with its registry of subscriber         *)
(* handles, processMessage / Broadcast, and the save queue with its single *)
(* save worker.                                                            *)
(***************************************************************************)
EXTENDS Integers, Sequences, FiniteSets, TLC

\* ------------------------------------------------------------------ bounds
NumStreams == 2      \* Stream RPCs opened during a run
MaxFrames == 2       \* frames the first client sends, handshake included
MaxTime == 2         \* the clock runs 0..MaxTime
QueueCap == 2        \* largest save-queue capacity a run is built with

\* -------------------------------------------------------- program constants
TokenTTL == 2        \* 24 h, in clock units of 12 h

Streams == 1..NumStreams

\* Frames a client sends on its stream: the first client up to MaxFrames, the
\* others their handshake frame only.
FrameBudget(s) == IF s = 1 THEN MaxFrames ELSE 1
Rooms == {"r1", "r2"}
DBUsers == {"u1", "u2"}
TokenUsers == DBUsers \cup {"ghost"}
TEXT == "TEXT"
FILE_CONTROL == "FILE_CONTROL"
FILE_CHUNK == "FILE_CHUNK"
MsgTypes == {TEXT, FILE_CONTROL, FILE_CHUNK}
NoStream == 0

VARIABLES
    now,        \* server wall clock
    pc,         \* position of each Stream RPC
    status,     \* RPC status returned to the client, "" while running
    tok,        \* bearer token presented in the authorization metadata
    authAt,     \* clock value when StreamAuthInterceptor verified the token
    regAt,      \* clock value when registerStream inserted the handle
    ctxUser,    \* user id injected in the stream context
    roomID,     \* room named by the handshake frame
    nrecv,      \* frames received so far on each stream
    cur,        \* frame being processed by processMessage
    rcv,        \* clock value at the frame's Recv, and the timestamp it came with
    streams,    \* registry: room key -> set of <<user id, handle>>
    lockW,      \* holder of streamMu's write lock, NoStream if free
    lockR,      \* holders of streamMu's read lock
    active,     \* Broadcast's activeStreams slice
    sentTo,     \* handles of activeStreams already passed to Send
    sendLog,    \* per handle: the frames passed to Send, in order
    delivered,  \* what Send was given: frame, timestamp, and the frame's rcv
    snapLog,    \* per broadcast frame: registry handles of its room at RLock copy
    qcap,       \* capacity the save queue was made with
    queue,      \* the save queue
    enqLog,     \* frames whose save request was placed on the queue, in order
    warned,     \* frames for which "DB Queue full" was logged
    processed,  \* frames for which processMessage returned
    wpc,        \* save worker position
    wreq,       \* request the save worker took from the queue
    storeLog,   \* requests passed to StoreMessage, in order
    messages,   \* rows of the messages table, in insertion order
    roomsTbl,   \* ids of the rows of the rooms table
    history,    \* users.history column, per user id
    saved,      \* users.rooms column, per user id
    jpc,        \* position of each JoinRoom call
    jarg,       \* caller and room name of each JoinRoom call
    jin,        \* the user row a JoinRoom call read
    jout,       \* the history a JoinRoom call stored
    ppc,        \* prune worker position
    ptodo,      \* room ids the running prune pass has still to delete from
    pkeep,      \* keep argument of the running prune pass
    perr,       \* room ids whose DELETE failed in the running prune pass
    burst,      \* burst the rate limiter was made with
    visitors,   \* RateLimiter.visitors: peer address -> its bucket
    rlLog,      \* per peer: Allow verdicts given at the latest instant it called
    call,       \* the RPCs on their way through the interceptor chain
    accounts,   \* rows of the users table: id -> email, password hash, role
    acall,      \* the Login, CreateUser and UpdatePassword calls
    rint,       \* checkInterval the room reaper was started with
    rthr,       \* staleThreshold the room reaper was started with
    rnext,      \* clock value of the reaper ticker's next tick
    rlog,       \* the reaper's latest pass: its number, time, outcome
    firstContent, \* per stream: was firstMsg's message content empty or not
    sendErrs,   \* Send calls of Broadcast that returned an error: <<frame id, handle>>
    sending,    \* per stream: the handle its Broadcast has a Send in progress on
    ever        \* the buckets of a limiter that is fed the same calls and never swept

vars == <<now, pc, status, tok, authAt, regAt, ctxUser, roomID, nrecv, cur, rcv,
          streams, lockW, lockR, active, sentTo, sendLog, delivered, snapLog, qcap,
          queue, enqLog, warned, processed, wpc, wreq, storeLog, messages,
          roomsTbl, history, saved, jpc, jarg, jin, jout, ppc, ptodo, pkeep, perr,
          burst, visitors, rlLog, call, accounts, acall, rint, rthr, rnext, rlog,
          firstContent, sendErrs, sending, ever>>

authVars == <<tok, authAt, ctxUser, status>>
lockVars == <<lockW, lockR>>
bcastVars == <<active, sentTo, sendLog, snapLog, sendErrs, sending>>
saveVars == <<queue, enqLog, warned>>
constVars == <<now, qcap>>
workerVars == <<wpc, wreq, storeLog, messages>>
stampVars == <<rcv, delivered, firstContent>>
catalogVars == <<roomsTbl, history, saved>>
joinVars == <<jpc, jarg, jin, jout>>
pruneVars == <<ppc, ptodo, pkeep, perr>>
gateVars == <<burst, visitors, rlLog, call, ever>>
adminVars == <<accounts, acall>>
reapVars == <<rint, rthr, rnext, rlog>>
sideVars == <<catalogVars, joinVars, pruneVars, gateVars, adminVars, reapVars>>
streamVars == <<pc, status, tok, authAt, regAt, ctxUser, roomID, nrecv, cur, streams>>

\* ------------------------------------------------------------------ tokens
NoToken == [present |-> FALSE, uid |-> "", iat |-> 0, sig |-> FALSE]

\* Tokens a client can present at clock value t: none, or one issued at some
\* earlier instant for some user id, correctly signed or not.
TokenInputs(t) ==
    {NoToken} \cup
    [present : {TRUE}, uid : TokenUsers, iat : 0..t, sig : BOOLEAN]

\* Variant: the expiry claim is not checked.
ValidateJWT_NoExpiry(t, at) ==
    /\ t.present
    /\ t.sig

\* jwt.ParseWithClaims: the signature verifies and the clock is before exp,
\* exp being iat + 24 h as GenerateJWT sets it.
ValidateJWT(t, at) ==
    /\ t.present
    /\ t.sig
    /\ at < t.iat + TokenTTL

\* Tokens of the message-plane runs: none, or one that Login has just issued
\* to a stored user.  Users are interchangeable, so the first client is "u1".
FreshTokens(s, t) ==
    IF s = 1
    THEN [present : {TRUE}, uid : {"u1"}, iat : {t}, sig : {TRUE}]
    ELSE {NoToken} \cup [present : {TRUE}, uid : DBUsers, iat : {t}, sig : {TRUE}]

GetUserOK(uid) == uid \in DBUsers

\* Variant: a call without authorization metadata is let through.
StreamAuthOK_MissingPasses(t, at) ==
    \/ ~t.present
    \/ (t.sig /\ at < t.iat + TokenTTL /\ t.uid \in DBUsers)

\* StreamAuthInterceptor's verdict: TRUE when the handler is invoked.
StreamAuthOK(t, at) ==
    /\ ValidateJWT(t, at)
    /\ GetUserOK(t.uid)

\* ---------------------------------------------------------------- registry
EmptyRegistry == [k \in {} |-> {}]

Inner(reg, r) == IF r \in DOMAIN reg THEN reg[r] ELSE {}

RoomHandles(reg, r) == {e[2] : e \in Inner(reg, r)}

RegistryHandles(reg) == UNION {RoomHandles(reg, r) : r \in DOMAIN reg}

\* Variant: the new handle is added beside the one already stored.
registerStream_KeepOld(reg, r, u, h) ==
    [k \in DOMAIN reg \cup {r} |->
        IF k = r THEN Inner(reg, r) \cup {<<u, h>>}
        ELSE reg[k]]

\* s.streams[roomID][userID] = stream
registerStream(reg, r, u, h) ==
    [k \in DOMAIN reg \cup {r} |->
        IF k = r THEN {e \in Inner(reg, r) : e[1] # u} \cup {<<u, h>>}
        ELSE reg[k]]

\* delete(s.streams[roomID], userID)
deregisterStream(reg, r, u) ==
    IF r \in DOMAIN reg
    THEN [reg EXCEPT ![r] = {e \in @ : e[1] # u}]
    ELSE reg

\* ------------------------------------------------------------------ frames
NoFrame ==
    [src |-> NoStream, n |-> 0, room |-> "", type |-> TEXT, text |-> FALSE, ts |-> 0,
     user |-> ""]

NoRcv == [at |-> 0, ts |-> 0]

NoRequest == [src |-> NoStream, n |-> 0, room |-> "", user |-> "", ts |-> 0]

\* The timestamp a client puts in a frame.
ClientTs == {0}

\* The user_id and email a client puts in a frame.  No handler reads them, so
\* the runs that do not look at them leave them empty.
ClientUser == {""}

\* What a client can put in a frame: any room id, any type tag, and a
\* message_content payload that is empty or not.
FrameInputs(s, k) ==
    [src : {s}, n : {k}, room : Rooms, type : MsgTypes, text : BOOLEAN, ts : ClientTs,
     user : ClientUser]

\* Handshake frames of the message-plane runs.  Rooms are interchangeable, so
\* the first client's handshake names "r1".
PlaneHandshakes(s) ==
    {f \in FrameInputs(s, 1) : s = 1 => f.room = "r1"}

\* Frames of the receive loop.  The loop never looks at whether the content
\* is empty, so they are drawn with content.
LoopFrames(s, k) == {f \in FrameInputs(s, k) : f.text}

FrameId(f) == <<f.src, f.n>>

InSeq(x, q) == \E i \in 1..Len(q) : q[i] = x

\* The server as main builds it: no stream, an idle worker.
InitServer ==
    /\ now = 0
    /\ pc = [s \in Streams |-> "idle"]
    /\ status = [s \in Streams |-> ""]
    /\ tok = [s \in Streams |-> NoToken]
    /\ authAt = [s \in Streams |-> 0]
    /\ regAt = [s \in Streams |-> 0]
    /\ ctxUser = [s \in Streams |-> ""]
    /\ roomID = [s \in Streams |-> ""]
    /\ nrecv = [s \in Streams |-> 0]
    /\ cur = [s \in Streams |-> NoFrame]
    /\ rcv = [s \in Streams |-> NoRcv]
    /\ firstContent = [s \in Streams |-> "none"]
    /\ streams = EmptyRegistry
    /\ lockW = NoStream
    /\ lockR = {}
    /\ active = [s \in Streams |-> {}]
    /\ sentTo = [s \in Streams |-> {}]
    /\ sendLog = [s \in Streams |-> <<>>]
    /\ delivered = {}
    /\ snapLog = {}
    /\ sendErrs = {}
    /\ sending = [s \in Streams |-> NoStream]
    /\ qcap \in 1..QueueCap
    /\ enqLog = <<>>
    /\ warned = {}
    /\ processed = {}
    /\ wpc = "select"
    /\ wreq = NoRequest
    /\ storeLog = <<>>

\* A server started on a new database: an empty queue and no message.
InitPlane ==
    /\ InitServer
    /\ queue = <<>>
    /\ messages = <<>>

NumJoins == 2        \* JoinRoom calls made during a run
Joins == 1..NumJoins

NoJoin == [user |-> "", room |-> "", email |-> ""]

\* The zero User value: what GetUserByEmail returns beside an error.
NoUserRow == [id |-> "", history |-> <<>>, saved |-> <<>>]

MaxThreshold == 2    \* largest stale threshold a run's reaper is started with
NoPass == [n |-> 0, at |-> 0, ok |-> TRUE, removed |-> {}]

\* StartRoomReaper before its first tick, which comes one interval after the
\* start.
InitReaper ==
    /\ rint = 1
    /\ rthr = MaxThreshold
    /\ rnext = rint
    /\ rlog = NoPass

\* The prune worker and the JoinRoom calls before they start.
InitWorkers ==
    /\ jpc = [c \in Joins |-> "idle"]
    /\ jarg = [c \in Joins |-> NoJoin]
    /\ jin = [c \in Joins |-> NoUserRow]
    /\ jout = [c \in Joins |-> <<>>]
    /\ ppc = "idle"
    /\ ptodo = {}
    /\ pkeep = 0
    /\ perr = {}

InitSide == InitWorkers /\ InitReaper

\* Tables as CreateTables and CreateUser leave them: no room, and users that
\* have joined nothing.
InitCatalog ==
    /\ roomsTbl = {}
    /\ history = [u \in DBUsers |-> <<>>]
    /\ saved = [u \in DBUsers |-> <<>>]

NumCalls == 3        \* RPCs made during a run
MaxBurst == 2        \* largest burst a run's rate limiter is made with
Calls == 1..NumCalls
Peers == {"p1", "p2"}

NoCall ==
    [pc |-> "idle", stage |-> 0, peer |-> "", method |-> "", tok |-> NoToken,
     rate |-> "none", authAt |-> 0 - 1, verified |-> FALSE, user |-> "",
     handled |-> FALSE, status |-> ""]

NoVerdicts == [allowed |-> 0, denied |-> 0]

\* NewRateLimiter: no visitor yet; no RPC has arrived.
InitCalls ==
    /\ visitors = [p \in {} |-> 0]
    /\ ever = [p \in {} |-> 0]
    /\ rlLog = [p \in Peers |-> NoVerdicts]
    /\ call = [c \in Calls |-> NoCall]

NumOps == 2          \* Login, CreateUser and UpdatePassword calls made during a run
ACalls == 1..NumOps
Emails == {"e1", "e2", "e3"}
Passwords == {"pw1", "pw2"}

\* bcrypt.GenerateFromPassword, as far as CompareHashAndPassword can tell.
Hash(p) == [alg |-> "bcrypt", of |-> p]

\* A password column that does not hold a bcrypt hash.
NotAHash == [alg |-> "", of |-> ""]

NoRow == [id |-> "", email |-> "", password |-> NotAHash, role |-> ""]

NoCaller == [id |-> "", email |-> "", role |-> ""]

NoOp ==
    [pc |-> "idle", op |-> "", caller |-> NoCaller, email |-> "", pw |-> "",
     old |-> "", role |-> "", row |-> NoRow, existed |-> FALSE, wrote |-> FALSE,
     status |-> "", msg |-> ""]

\* The users table after first-use setup and one CreateUser: the admin "u1"
\* and the user "u2".
FirstAccounts ==
    [u \in DBUsers |->
        IF u = "u1" THEN [email |-> "e1", password |-> Hash("pw1"), role |-> "admin"]
        ELSE [email |-> "e2", password |-> Hash("pw1"), role |-> "user"]]

InitAccounts ==
    /\ accounts = FirstAccounts
    /\ acall = [c \in ACalls |-> NoOp]

Init ==
    /\ InitPlane /\ InitSide /\ InitCatalog /\ InitCalls /\ burst = MaxBurst
    /\ InitAccounts

\* The wall clock advances.
Tick ==
    /\ now < MaxTime
    /\ now' = now + 1
    /\ rlLog' = [p \in Peers |-> NoVerdicts]
    /\ UNCHANGED <<qcap, pc, nrecv, cur, roomID, regAt, streams>>
    /\ UNCHANGED <<authVars, lockVars, bcastVars, saveVars, workerVars, processed>>
    /\ UNCHANGED <<stampVars, catalogVars, joinVars, pruneVars, burst, visitors, call, ever>>
    /\ UNCHANGED <<adminVars, reapVars>>

\* A client opens the Stream RPC; StreamAuthInterceptor runs, and on success
\* calls the handler, which reads the user from the context and blocks in the
\* first Recv.
StreamOpen(s, T) ==
    /\ pc[s] = "idle"
    /\ \E t \in T :
        /\ tok' = [tok EXCEPT ![s] = t]
        /\ authAt' = [authAt EXCEPT ![s] = now]
        /\ IF StreamAuthOK(t, now)
           THEN /\ pc' = [pc EXCEPT ![s] = "handshake"]
                /\ ctxUser' = [ctxUser EXCEPT ![s] = t.uid]
                /\ UNCHANGED status
           ELSE /\ pc' = [pc EXCEPT ![s] = "rejected"]
                /\ status' = [status EXCEPT ![s] = "UNAUTHENTICATED"]
                /\ UNCHANGED ctxUser
    /\ UNCHANGED <<constVars, nrecv, cur, roomID, regAt, streams>>
    /\ UNCHANGED <<lockVars, bcastVars, saveVars, workerVars, processed>>
    /\ UNCHANGED <<stampVars, sideVars>>

\* Variant: only the io.EOF return deregisters.
ExitPc_EOFOnly(kind) == IF kind = "EOF" THEN "dereg_lock" ELSE "closed"

\* Where the handler goes when a Recv of the receive loop fails, with io.EOF or
\* with any other error: both returns run the deferred deregisterStream.
ExitPc(kind) == "dereg_lock"

\* First Recv of the handler: the handshake frame arrives and names the room.
RecvFirst(s, F) ==
    /\ pc[s] = "handshake"
    /\ nrecv[s] < FrameBudget(s)
    /\ \E f \in F :
        /\ cur' = [cur EXCEPT ![s] = f]
        /\ rcv' = [rcv EXCEPT ![s] = [at |-> now, ts |-> f.ts]]
        /\ roomID' = [roomID EXCEPT ![s] = f.room]
        /\ firstContent' = [firstContent EXCEPT ![s] =
              IF f.text THEN "content" ELSE "empty"]
    /\ nrecv' = [nrecv EXCEPT ![s] = @ + 1]
    /\ pc' = [pc EXCEPT ![s] = "reg_lock"]
    /\ UNCHANGED delivered
    /\ UNCHANGED <<constVars, regAt, streams>>
    /\ UNCHANGED <<authVars, lockVars, bcastVars, saveVars, workerVars, processed>>
    /\ UNCHANGED sideVars

\* First Recv fails (EOF included): the handler returns the error; nothing was
\* registered and no deregister is deferred yet.
RecvFirstFail(s) ==
    /\ pc[s] = "handshake"
    /\ pc' = [pc EXCEPT ![s] = "closed"]
    /\ status' = [status EXCEPT ![s] = "ERR"]
    /\ UNCHANGED <<constVars, nrecv, cur, roomID, regAt, streams, tok, authAt, ctxUser>>
    /\ UNCHANGED <<lockVars, bcastVars, saveVars, workerVars, processed>>
    /\ UNCHANGED <<stampVars, sideVars>>

\* registerStream: s.streamMu.Lock()
RegisterLock(s) ==
    /\ pc[s] = "reg_lock"
    /\ lockW = NoStream
    /\ lockR = {}
    /\ lockW' = s
    /\ pc' = [pc EXCEPT ![s] = "reg_insert"]
    /\ UNCHANGED <<constVars, nrecv, cur, roomID, regAt, streams, lockR>>
    /\ UNCHANGED <<authVars, bcastVars, saveVars, workerVars, processed>>
    /\ UNCHANGED <<stampVars, sideVars>>

\* Variant: the handshake frame is processed whatever its content.
FirstProcessed_Always(f) == TRUE
\* Stream: if firstMsg.GetMessageContent() != "" { s.processMessage(...) }.
FirstProcessed(f) == f.text

\* registerStream body and deferred Unlock; then the handler processes the
\* handshake frame if its message content is not empty.
RegisterInsert(s) ==
    /\ pc[s] = "reg_insert"
    /\ lockW = s
    /\ streams' = registerStream(streams, roomID[s], ctxUser[s], s)
    /\ lockW' = NoStream
    /\ regAt' = [regAt EXCEPT ![s] = now]
    /\ IF FirstProcessed(cur[s])
       THEN /\ pc' = [pc EXCEPT ![s] = "stamp"]
            /\ UNCHANGED cur
       ELSE /\ pc' = [pc EXCEPT ![s] = "recv"]
            /\ cur' = [cur EXCEPT ![s] = NoFrame]
    /\ UNCHANGED <<constVars, nrecv, roomID, lockR>>
    /\ UNCHANGED <<authVars, bcastVars, saveVars, workerVars, processed>>
    /\ UNCHANGED <<stampVars, sideVars>>

\* Receive loop: a frame arrives.
Recv(s, F) ==
    /\ pc[s] = "recv"
    /\ nrecv[s] < FrameBudget(s)
    /\ \E f \in F :
        /\ cur' = [cur EXCEPT ![s] = f]
        /\ rcv' = [rcv EXCEPT ![s] = [at |-> now, ts |-> f.ts]]
    /\ UNCHANGED <<delivered, firstContent>>
    /\ nrecv' = [nrecv EXCEPT ![s] = @ + 1]
    /\ pc' = [pc EXCEPT ![s] = "stamp"]
    /\ UNCHANGED <<constVars, roomID, regAt, streams>>
    /\ UNCHANGED <<authVars, lockVars, bcastVars, saveVars, workerVars, processed>>
    /\ UNCHANGED sideVars

\* Receive loop: Recv returns io.EOF (the handler returns nil) or another
\* error (the handler returns it).
RecvEnd(s) ==
    /\ pc[s] = "recv"
    /\ \E kind \in {"EOF", "ERR"} :
        /\ pc' = [pc EXCEPT ![s] = ExitPc(kind)]
        /\ status' = [status EXCEPT ![s] = IF kind = "EOF" THEN "OK" ELSE "ERR"]
    /\ UNCHANGED <<constVars, nrecv, cur, roomID, regAt, streams, tok, authAt, ctxUser>>
    /\ UNCHANGED <<lockVars, bcastVars, saveVars, workerVars, processed>>
    /\ UNCHANGED <<stampVars, sideVars>>

\* Variant: the server time is filled in only when the client left the
\* timestamp unset.
StampValue_KeepClient(clientTs, t) == IF clientTs # 0 THEN clientTs ELSE t

\* The timestamp processMessage writes into the frame.
StampValue(clientTs, t) == t

\* Variant: the save request is enqueued right after the stamp.
AfterStamp_Enqueue == "persist"

\* processMessage: s.Broadcast(msg) is the statement after the stamp.
AfterStamp == "bcast_rlock"

\* processMessage: msg.Timestamp = time.Now().Unix()
Stamp(s) ==
    /\ pc[s] = "stamp"
    /\ cur' = [cur EXCEPT ![s].ts = StampValue(@, now)]
    /\ pc' = [pc EXCEPT ![s] = AfterStamp]
    /\ UNCHANGED <<constVars, nrecv, roomID, regAt, streams>>
    /\ UNCHANGED <<authVars, lockVars, bcastVars, saveVars, workerVars, processed>>
    /\ UNCHANGED <<stampVars, sideVars>>

\* Broadcast: s.streamMu.RLock()
BroadcastRLock(s) ==
    /\ pc[s] = "bcast_rlock"
    /\ lockW = NoStream
    /\ lockR' = lockR \cup {s}
    /\ pc' = [pc EXCEPT ![s] = "bcast_copy"]
    /\ UNCHANGED <<constVars, nrecv, cur, roomID, regAt, streams, lockW>>
    /\ UNCHANGED <<authVars, bcastVars, saveVars, workerVars, processed>>
    /\ UNCHANGED <<stampVars, sideVars>>

\* Variant: the handles of every room are copied.
ActiveStreams_AllRooms(reg, r) == RegistryHandles(reg)

\* The handles Broadcast copies into activeStreams for a frame of room r.
ActiveStreams(reg, r) == RoomHandles(reg, r)

\* Variant: the read lock is kept over the send loop.
RUnlockAfterCopy_Held(readers, s) == readers

\* The read-lock holders once Broadcast has copied the handles (RUnlock).
RUnlockAfterCopy(readers, s) == readers \ {s}

\* Broadcast: look the room up, copy its handles, RUnlock.  With no handles
\* Broadcast returns at once.
BroadcastCopy(s) ==
    /\ pc[s] = "bcast_copy"
    /\ s \in lockR
    /\ LET a == ActiveStreams(streams, cur[s].room) IN
        /\ active' = [active EXCEPT ![s] = a]
        /\ sentTo' = [sentTo EXCEPT ![s] = {}]
        /\ snapLog' = snapLog \cup
              {[id |-> FrameId(cur[s]), handles |-> RoomHandles(streams, cur[s].room)]}
        /\ pc' = [pc EXCEPT ![s] = IF a = {} THEN "persist" ELSE "bcast_send"]
    /\ lockR' = RUnlockAfterCopy(lockR, s)
    /\ UNCHANGED <<constVars, nrecv, cur, roomID, regAt, streams, lockW, sendLog, sendErrs, sending>>
    /\ UNCHANGED <<authVars, saveVars, workerVars, processed>>
    /\ UNCHANGED <<stampVars, sideVars>>

\* Variant: Broadcast returns at the first Send that fails.
AfterSend_ReturnOnError(err, last) ==
    IF err \/ last THEN "persist" ELSE "bcast_send"
\* Broadcast's send loop after a Send: "_ = stream.Send(msg)" drops the error
\* and the loop goes on to the next handle, or ends after the last one.
AfterSend(err, last) == IF last THEN "persist" ELSE "bcast_send"

\* Broadcast: one iteration of the send loop, stream.Send(msg) on the next
\* handle of activeStreams returns nil.
BroadcastSend(s) ==
    /\ pc[s] = "bcast_send"
    /\ \E h \in active[s] \ sentTo[s] :
        /\ sendLog' = [sendLog EXCEPT ![h] = Append(@, FrameId(cur[s]))]
        /\ delivered' = delivered \cup
              {[id |-> FrameId(cur[s]), ts |-> cur[s].ts, rcv |-> rcv[s],
                user |-> cur[s].user]}
        /\ sentTo' = [sentTo EXCEPT ![s] = @ \cup {h}]
        /\ pc' = [pc EXCEPT ![s] = AfterSend(FALSE, sentTo[s] \cup {h} = active[s])]
    /\ UNCHANGED <<constVars, nrecv, cur, rcv, roomID, regAt, streams, active, snapLog>>
    /\ UNCHANGED <<authVars, lockVars, saveVars, workerVars, processed, firstContent>>
    /\ UNCHANGED <<sideVars, sendErrs, sending>>

\* Broadcast: one iteration of the send loop, stream.Send(msg) on the next
\* handle returns an error (the subscriber's connection is gone): nothing is
\* delivered to it and the error is dropped.
BroadcastSendErr(s) ==
    /\ pc[s] = "bcast_send"
    /\ \E h \in active[s] \ sentTo[s] :
        /\ sendLog' = [sendLog EXCEPT ![h] = Append(@, FrameId(cur[s]))]
        /\ sendErrs' = sendErrs \cup {<<FrameId(cur[s]), h>>}
        /\ sentTo' = [sentTo EXCEPT ![s] = @ \cup {h}]
        /\ pc' = [pc EXCEPT ![s] = AfterSend(TRUE, sentTo[s] \cup {h} = active[s])]
    /\ UNCHANGED <<constVars, nrecv, cur, roomID, regAt, streams, active, snapLog, sending>>
    /\ UNCHANGED <<authVars, lockVars, saveVars, workerVars, processed>>
    /\ UNCHANGED <<stampVars, sideVars>>

\* Broadcast: stream.Send(msg) on the next handle of activeStreams is called.
\* The loop runs after RUnlock and takes no lock of its own.
BroadcastSendBegin(s) ==
    /\ pc[s] = "bcast_send"
    /\ sending[s] = NoStream
    /\ \E h \in active[s] \ sentTo[s] : sending' = [sending EXCEPT ![s] = h]
    /\ UNCHANGED <<constVars, pc, nrecv, cur, roomID, regAt, streams>>
    /\ UNCHANGED <<active, sentTo, sendLog, snapLog, sendErrs>>
    /\ UNCHANGED <<authVars, lockVars, saveVars, workerVars, processed>>
    /\ UNCHANGED <<stampVars, sideVars>>

\* Broadcast: the Send in progress returns nil and the loop goes on.
BroadcastSendEnd(s) ==
    /\ pc[s] = "bcast_send"
    /\ sending[s] # NoStream
    /\ LET h == sending[s] IN
        /\ sendLog' = [sendLog EXCEPT ![h] = Append(@, FrameId(cur[s]))]
        /\ delivered' = delivered \cup
              {[id |-> FrameId(cur[s]), ts |-> cur[s].ts, rcv |-> rcv[s],
                user |-> cur[s].user]}
        /\ sentTo' = [sentTo EXCEPT ![s] = @ \cup {h}]
        /\ pc' = [pc EXCEPT ![s] = AfterSend(FALSE, sentTo[s] \cup {h} = active[s])]
    /\ sending' = [sending EXCEPT ![s] = NoStream]
    /\ UNCHANGED <<constVars, nrecv, cur, rcv, roomID, regAt, streams, active, snapLog>>
    /\ UNCHANGED <<authVars, lockVars, saveVars, workerVars, processed, firstContent>>
    /\ UNCHANGED <<sideVars, sendErrs>>

\* Variant: every frame type is persisted.
ShouldPersist_All(type) == TRUE

\* processMessage returns before building the record for binary chunks.
ShouldPersist(type) == type # FILE_CHUNK

\* Variant: a plain channel send, which waits for room in the buffer.
EnqueueReady_Blocking(q) == Len(q) < qcap

\* The select with a default case is always ready to run.
EnqueueReady(q) == TRUE

\* Variant: the request goes to the front of the buffer.
QueuePut_Front(q, req) == <<req>> \o q

\* Channel send: the request goes to the back of the buffer.
QueuePut(q, req) == Append(q, req)

\* Variant: a full queue drops the request without logging.
SelectSend_Silent(q, req) ==
    IF Len(q) < qcap
    THEN [queue |-> QueuePut(q, req), sent |-> TRUE, warn |-> FALSE]
    ELSE [queue |-> q, sent |-> FALSE, warn |-> FALSE]

\* Variant: the queue is taken to be full one request early.
SelectSend_OffByOne(q, req) ==
    IF Len(q) < qcap - 1
    THEN [queue |-> QueuePut(q, req), sent |-> TRUE, warn |-> FALSE]
    ELSE [queue |-> q, sent |-> FALSE, warn |-> TRUE]

\* select { case Queue <- req: ; default: log "DB Queue full" }
SelectSend(q, req) ==
    IF Len(q) < qcap
    THEN [queue |-> QueuePut(q, req), sent |-> TRUE, warn |-> FALSE]
    ELSE [queue |-> q, sent |-> FALSE, warn |-> TRUE]

\* Variant: the record takes the user the frame names.
SaveRequest_FromFrame(s, f) ==
    [src |-> f.src, n |-> f.n, room |-> f.room, user |-> f.user, ts |-> f.ts]
\* processMessage: the record's UserID and Email are user.ID and user.Email of
\* the context user; the request's room and the rest come from the frame.
SaveRequest(s, f) ==
    [src |-> f.src, n |-> f.n, room |-> f.room, user |-> ctxUser[s], ts |-> f.ts]

\* processMessage after Broadcast: the FILE_CHUNK return, else the record
\* and the non-blocking enqueue; then back to the receive loop.
Persist(s) ==
    /\ pc[s] = "persist"
    /\ IF ShouldPersist(cur[s].type)
       THEN /\ EnqueueReady(queue)
            /\ LET r == SelectSend(queue, SaveRequest(s, cur[s])) IN
                /\ queue' = r.queue
                /\ enqLog' = IF r.sent THEN Append(enqLog, FrameId(cur[s])) ELSE enqLog
                /\ warned' = IF r.warn THEN warned \cup {FrameId(cur[s])} ELSE warned
       ELSE UNCHANGED saveVars
    /\ processed' = processed \cup {[id |-> FrameId(cur[s]), chunk |-> cur[s].type = FILE_CHUNK]}
    /\ cur' = [cur EXCEPT ![s] = NoFrame]
    /\ rcv' = [rcv EXCEPT ![s] = NoRcv]
    /\ UNCHANGED <<delivered, firstContent>>
    /\ active' = [active EXCEPT ![s] = {}]
    /\ sentTo' = [sentTo EXCEPT ![s] = {}]
    /\ pc' = [pc EXCEPT ![s] = "recv"]
    /\ UNCHANGED <<constVars, nrecv, roomID, regAt, streams, sendLog, snapLog, sendErrs, sending>>
    /\ UNCHANGED <<authVars, lockVars, workerVars>>
    /\ UNCHANGED sideVars

\* deferred deregisterStream: s.streamMu.Lock()
DeregisterLock(s) ==
    /\ pc[s] = "dereg_lock"
    /\ lockW = NoStream
    /\ lockR = {}
    /\ lockW' = s
    /\ pc' = [pc EXCEPT ![s] = "dereg_delete"]
    /\ UNCHANGED <<constVars, nrecv, cur, roomID, regAt, streams, lockR>>
    /\ UNCHANGED <<authVars, bcastVars, saveVars, workerVars, processed>>
    /\ UNCHANGED <<stampVars, sideVars>>

\* deregisterStream body and deferred Unlock; the handler returns.
DeregisterDelete(s) ==
    /\ pc[s] = "dereg_delete"
    /\ lockW = s
    /\ streams' = deregisterStream(streams, roomID[s], ctxUser[s])
    /\ lockW' = NoStream
    /\ pc' = [pc EXCEPT ![s] = "closed"]
    /\ UNCHANGED <<constVars, nrecv, cur, roomID, regAt, lockR>>
    /\ UNCHANGED <<authVars, bcastVars, saveVars, workerVars, processed>>
    /\ UNCHANGED <<stampVars, sideVars>>

\* The request the save worker receives from the channel.
QueueTake(q) == Head(q)

\* StartSaveWorker: case req := <-s.Queue
WorkerRecv ==
    /\ wpc = "select"
    /\ queue # <<>>
    /\ wreq' = QueueTake(queue)
    /\ queue' = Tail(queue)
    /\ wpc' = "store"
    /\ UNCHANGED <<constVars, pc, nrecv, cur, roomID, regAt, streams, enqLog, warned>>
    /\ UNCHANGED <<authVars, lockVars, bcastVars, processed, storeLog, messages>>
    /\ UNCHANGED <<stampVars, sideVars>>

\* Variant: the worker returns when StoreMessage fails.
WorkerAfterStore_StopOnError(ok) == IF ok THEN "select" ELSE "stopped"

\* Where the save worker goes once StoreMessage has returned: an error is
\* logged and the for loop goes round again.
WorkerAfterStore(ok) == "select"

\* StartSaveWorker: StoreMessage returns, with the row inserted or with an
\* error that is logged; the worker goes back to its select.
WorkerStore ==
    /\ wpc = "store"
    /\ storeLog' = Append(storeLog, <<wreq.src, wreq.n>>)
    /\ \E ok \in BOOLEAN :
        /\ messages' = IF ok THEN Append(messages, wreq) ELSE messages
        /\ wpc' = WorkerAfterStore(ok)
    /\ wreq' = NoRequest
    /\ UNCHANGED <<constVars, pc, nrecv, cur, roomID, regAt, streams>>
    /\ UNCHANGED <<authVars, lockVars, bcastVars, saveVars, processed>>
    /\ UNCHANGED <<stampVars, sideVars>>

\* StartSaveWorker: case <-ticker.C, the heartbeat line is logged and the
\* loop goes round again; nothing the server keeps is changed.
WorkerHeartbeat ==
    /\ wpc = "select"
    /\ UNCHANGED vars

\* --------------------------------------------------------------- JoinRoom
HistoryCap == 10

Without(h, r) == SelectSeq(h, LAMBDA x : x # r)

\* Variant: the history is not cut.
JoinHistory_NoCap(h, r) == <<r>> \o Without(h, r)

\* Variant: the room goes to the tail of the history.
JoinHistory_Append(h, r) ==
    LET n == Append(Without(h, r), r) IN
    IF Len(n) > HistoryCap THEN SubSeq(n, Len(n) - HistoryCap + 1, Len(n)) ELSE n

\* JoinRoom, "Update History": the room first, then the old entries other
\* than the room in their order, cut to the first 10.
JoinHistory(h, r) ==
    LET n == <<r>> \o Without(h, r) IN
    IF Len(n) > HistoryCap THEN SubSeq(n, 1, HistoryCap) ELSE n

\* Variant: the room is appended whether saved already or not.
JoinSaved_Always(sv, r) == Append(sv, r)

\* JoinRoom, "Update Saved Rooms": appended unless already there.
JoinSaved(sv, r) == IF InSeq(r, sv) THEN sv ELSE Append(sv, r)

\* An authenticated caller invokes JoinRoom with a room name; the request
\* also has an email field.
JoinStart(c, U, R, E) ==
    /\ jpc[c] = "idle"
    /\ \E u \in U, r \in R, e \in E :
          jarg' = [jarg EXCEPT ![c] = [user |-> u, room |-> r, email |-> e]]
    /\ jpc' = [jpc EXCEPT ![c] = "getroom"]
    /\ UNCHANGED <<constVars, streamVars, lockVars, bcastVars, saveVars, workerVars, adminVars, reapVars>>
    /\ UNCHANGED <<gateVars, processed, stampVars, catalogVars, jin, jout, pruneVars>>

\* JoinRoom: DB.GetRoom(roomName); an error sends the handler to StoreRoom.
JoinGetRoom(c) ==
    /\ jpc[c] = "getroom"
    /\ jpc' = [jpc EXCEPT ![c] =
          IF jarg[c].room \in roomsTbl THEN "getuser" ELSE "storeroom"]
    /\ UNCHANGED <<constVars, streamVars, lockVars, bcastVars, saveVars, workerVars, adminVars, reapVars>>
    /\ UNCHANGED <<gateVars, processed, stampVars, catalogVars, jarg, jin, jout, pruneVars>>

\* JoinRoom: DB.StoreRoom(Room{ID: roomName, ...}), an upsert by id.
JoinStoreRoom(c) ==
    /\ jpc[c] = "storeroom"
    /\ roomsTbl' = roomsTbl \cup {jarg[c].room}
    /\ jpc' = [jpc EXCEPT ![c] = "getuser"]
    /\ UNCHANGED <<constVars, streamVars, lockVars, bcastVars, saveVars, workerVars, adminVars, reapVars>>
    /\ UNCHANGED <<gateVars, processed, stampVars, history, saved, jarg, jin, jout, pruneVars>>

\* DB.GetUserByEmail: the ids of the rows with the email, none or one.
GetUserByEmail(acc, e) == {u \in DOMAIN acc : acc[u].email = e}

\* Variant: the row is looked up by the email field of the request.
JoinLookup_RequestEmail(callerEmail, reqEmail) == reqEmail
\* JoinRoom: DB.GetUserByEmail(caller.Email), caller being the context user.
JoinLookup(callerEmail, reqEmail) == callerEmail

\* DB.StoreUser on the history and rooms columns: INSERT ... ON CONFLICT (id)
\* DO UPDATE.
UpsertColumn(col, id, v) ==
    [u \in DOMAIN col \cup {id} |-> IF u = id THEN v ELSE col[u]]

\* JoinRoom: the caller is in the context; DB.GetUserByEmail reads its row.
JoinGetUser(c) ==
    /\ jpc[c] = "getuser"
    /\ \E u \in GetUserByEmail(accounts,
                  JoinLookup(accounts[jarg[c].user].email, jarg[c].email)) :
          jin' = [jin EXCEPT ![c] =
                    [id |-> u, history |-> history[u], saved |-> saved[u]]]
    /\ jpc' = [jpc EXCEPT ![c] = "storeuser"]
    /\ UNCHANGED <<constVars, streamVars, lockVars, bcastVars, saveVars, workerVars, adminVars, reapVars>>
    /\ UNCHANGED <<gateVars, processed, stampVars, catalogVars, jarg, jout, pruneVars>>

\* JoinRoom: DB.GetUserByEmail returns an error, which "dbUser, _ :=" drops;
\* dbUser is the zero User and the handler goes on with it.
JoinGetUserFail(c) ==
    /\ jpc[c] = "getuser"
    /\ jin' = [jin EXCEPT ![c] = NoUserRow]
    /\ jpc' = [jpc EXCEPT ![c] = "storeuser"]
    /\ UNCHANGED <<constVars, streamVars, lockVars, bcastVars, saveVars, workerVars, adminVars, reapVars>>
    /\ UNCHANGED <<gateVars, processed, stampVars, catalogVars, jarg, jout, pruneVars>>

\* JoinRoom: saved rooms and history are rebuilt from the row that was read
\* and DB.StoreUser writes the row back under its id; the handler returns.
JoinStoreUser(c) ==
    /\ jpc[c] = "storeuser"
    /\ LET u == jin[c].id
           h == JoinHistory(jin[c].history, jarg[c].room)
       IN /\ history' = UpsertColumn(history, u, h)
          /\ saved' = UpsertColumn(saved, u, JoinSaved(jin[c].saved, jarg[c].room))
          /\ jout' = [jout EXCEPT ![c] = h]
    /\ jpc' = [jpc EXCEPT ![c] = "done"]
    /\ UNCHANGED <<constVars, streamVars, lockVars, bcastVars, saveVars, workerVars, adminVars, reapVars>>
    /\ UNCHANGED <<gateVars, processed, stampVars, roomsTbl, jarg, jin, pruneVars>>

\* ------------------------------------------------------------ prune worker
\* keep arguments of the prune passes.
KeepInputs == {1}

Pick(q, I) ==
    LET F[i \in 0..Len(q)] ==
            IF i = 0 THEN <<>>
            ELSE IF i \in I THEN Append(F[i - 1], q[i]) ELSE F[i - 1]
    IN F[Len(q)]

\* Variant: the keep rows of r with the smallest ids stay.
PruneRoom_KeepOldest(msgs, r, keep) ==
    Pick(msgs, {i \in 1..Len(msgs) :
                  \/ msgs[i].room # r
                  \/ Cardinality({j \in 1..(i - 1) : msgs[j].room = r}) < keep})

\* DELETE FROM messages WHERE room_id = r AND id NOT IN (the keep rows of r
\* with the largest ids).
PruneRoom(msgs, r, keep) ==
    Pick(msgs, {i \in 1..Len(msgs) :
                  \/ msgs[i].room # r
                  \/ Cardinality({j \in (i + 1)..Len(msgs) : msgs[j].room = r}) < keep})

\* StartPruneWorker: the ticker fires; PruneMessages reads the distinct room
\* ids of the messages table.
PruneStart(K) ==
    /\ ppc = "idle"
    /\ \E keep \in K : pkeep' = keep
    /\ ptodo' = {messages[i].room : i \in 1..Len(messages)}
    /\ perr' = {}
    /\ ppc' = IF messages = <<>> THEN "idle" ELSE "rooms"
    /\ UNCHANGED <<constVars, streamVars, lockVars, bcastVars, saveVars, workerVars, adminVars, reapVars>>
    /\ UNCHANGED <<gateVars, processed, stampVars, catalogVars, joinVars>>

\* PruneMessages: the DELETE for the next room id of the list; an error is
\* logged and the pass goes on.
PruneDelete ==
    /\ ppc = "rooms"
    /\ \E r \in ptodo, ok \in BOOLEAN :
        /\ messages' = IF ok THEN PruneRoom(messages, r, pkeep) ELSE messages
        /\ ptodo' = ptodo \ {r}
        /\ perr' = IF ok THEN perr ELSE perr \cup {r}
        /\ ppc' = IF ptodo = {r} THEN "idle" ELSE "rooms"
    /\ UNCHANGED <<constVars, streamVars, lockVars, bcastVars, saveVars, pkeep, adminVars, reapVars>>
    /\ UNCHANGED <<gateVars, processed, stampVars, catalogVars, joinVars, wpc, wreq, storeLog>>

\* ------------------------------------------------------ interceptor chain
\* Clock values are 12 h apart: a bucket last used at an earlier clock value
\* has refilled to its burst, and a visitor last seen at an earlier clock
\* value is older than the 3 minutes cleanupVisitors allows.
\* UpdatePassword goes the way of CreateUser and JoinRoom: the interceptors
\* tell Login from every other method and nothing more.
UnaryMethods == {"Login", "CreateUser", "JoinRoom"}
Methods == UnaryMethods \cup {"Stream"}

\* A string that does not parse as a token.
MalformedToken == [present |-> TRUE, uid |-> "", iat |-> 0, sig |-> FALSE]

\* What a caller can put in the authorization metadata: nothing, garbage, or
\* a token for a stored or an unknown user, issued at clock value 0 or 24 h
\* before it, or signed with another key.
GateTokens ==
    {NoToken, MalformedToken} \cup
    {[present |-> TRUE, uid |-> "u1", iat |-> 0, sig |-> TRUE],
     [present |-> TRUE, uid |-> "u1", iat |-> 0 - TokenTTL, sig |-> TRUE],
     [present |-> TRUE, uid |-> "u1", iat |-> 0, sig |-> FALSE],
     [present |-> TRUE, uid |-> "ghost", iat |-> 0, sig |-> TRUE]}

\* Variant: the auth interceptor is chained outside the rate limiter.
ChainOrder_AuthFirst == <<"auth", "rate">>

\* grpc.ChainUnaryInterceptor / ChainStreamInterceptor, outermost first.
ChainOrder == <<"rate", "auth">>

\* rate.NewLimiter(rl.r, rl.b) at clock value t: a full bucket.
FreshBucket(t) == [tokens |-> burst, last |-> t, lastSeen |-> t]

\* Variant: the new visitor is never stored in the map.
getLimiter_AlwaysNew(vis, p, t) == FreshBucket(t)

\* getLimiter: the visitor of the peer, made on first sight, its lastSeen
\* set to the present.
getLimiter(vis, p, t) ==
    IF p \in DOMAIN vis THEN [vis[p] EXCEPT !.lastSeen = t] ELSE FreshBucket(t)

\* Tokens in the bucket at clock value t, before Allow takes one.
Refill(v, t) == IF t > v.last THEN burst ELSE v.tokens

\* The limiter's map after getLimiter(p).Allow() at clock value t: a token is
\* taken when there is one.
Allow(vis, p, t) ==
    LET v == getLimiter(vis, p, t)
        tk == Refill(v, t)
    IN [q \in DOMAIN vis \cup {p} |->
            IF q = p
            THEN [v EXCEPT !.tokens = IF tk >= 1 THEN tk - 1 ELSE tk, !.last = t]
            ELSE vis[q]]

\* The interceptor steps that follow in the chain, or the handler.
Advance(cl) ==
    IF cl.stage < Len(ChainOrder)
    THEN [cl EXCEPT !.stage = @ + 1]
    ELSE [cl EXCEPT !.pc = "handler"]

\* Variant: CreateUser is treated as public too.
PublicMethod_CreateUser(m) == m \in {"Login", "CreateUser"}

\* AuthInterceptor: info.FullMethod == "/chat.ChatService/Login"
PublicMethod(m) == m = "Login"

\* AuthInterceptor's verdict for a unary call: TRUE when the handler (or the
\* next interceptor) is invoked.
UnaryAuthOK(m, t, at) ==
    \/ PublicMethod(m)
    \/ (ValidateJWT(t, at) /\ GetUserOK(t.uid))

\* The number of RPCs the server has not yet answered.
InFlight == Cardinality({c \in Calls : call[c].pc \in {"chain", "handler", "done"}})

MaxInFlight == 2     \* RPCs the server has not yet answered, at once

\* Peers are interchangeable, so the first RPC comes from "p1".
CallPeers(c) == IF c = 1 THEN {"p1"} ELSE Peers

\* An RPC arrives from a peer.  RPCs go through the interceptors one after
\* another -- the limiter's mutex serialises Allow, and the token check shares
\* nothing between calls -- while earlier RPCs may still be in their handler
\* or on their way back.
CallStart(c) ==
    /\ call[c].pc = "idle"
    /\ InFlight < MaxInFlight
    /\ \A d \in Calls : call[d].pc # "chain"
    /\ \A d \in 1..(c - 1) : call[d].pc # "idle"
    /\ \E p \in CallPeers(c), m \in Methods, t \in GateTokens :
        call' = [call EXCEPT ![c] =
            [NoCall EXCEPT !.pc = "chain", !.stage = 1, !.peer = p, !.method = m,
                           !.tok = t]]
    /\ UNCHANGED <<constVars, streamVars, lockVars, bcastVars, saveVars, workerVars, adminVars, reapVars>>
    /\ UNCHANGED <<processed, stampVars, catalogVars, joinVars, pruneVars>>
    /\ UNCHANGED <<burst, visitors, rlLog, ever>>

\* RateLimiter.UnaryInterceptor / StreamInterceptor: getLimiter(ip).Allow();
\* on denial the call returns RESOURCE_EXHAUSTED.
RateStep(c) ==
    /\ call[c].pc = "chain"
    /\ ChainOrder[call[c].stage] = "rate"
    /\ LET cl == call[c]
           p == cl.peer
           v == getLimiter(visitors, p, now)
           tk == Refill(v, now)
           ok == tk >= 1
       IN /\ visitors' = Allow(visitors, p, now)
          /\ ever' = Allow(ever, p, now)
          /\ rlLog' = [rlLog EXCEPT ![p] =
                IF ok THEN [@ EXCEPT !.allowed = @ + 1]
                ELSE [@ EXCEPT !.denied = @ + 1]]
          /\ call' = [call EXCEPT ![c] =
                IF ok THEN Advance([cl EXCEPT !.rate = "allowed"])
                ELSE [cl EXCEPT !.rate = "denied", !.pc = "done",
                                !.status = "RESOURCE_EXHAUSTED"]]
    /\ UNCHANGED <<constVars, streamVars, lockVars, bcastVars, saveVars, workerVars, adminVars, reapVars>>
    /\ UNCHANGED <<processed, stampVars, catalogVars, joinVars, pruneVars, burst>>

\* AuthInterceptor / StreamAuthInterceptor: Login passes untouched; otherwise
\* the metadata is read, the token verified and the user fetched, and any
\* failure returns UNAUTHENTICATED.
AuthStep(c) ==
    /\ call[c].pc = "chain"
    /\ ChainOrder[call[c].stage] = "auth"
    /\ LET cl == call[c]
           unary == cl.method \in UnaryMethods
           skip == unary /\ PublicMethod(cl.method)
           ok == IF unary THEN UnaryAuthOK(cl.method, cl.tok, now)
                 ELSE StreamAuthOK(cl.tok, now)
           seen == [cl EXCEPT !.authAt = now, !.verified = ~skip /\ cl.tok.present]
       IN call' = [call EXCEPT ![c] =
            IF ok
            THEN Advance([seen EXCEPT !.user = IF skip THEN "" ELSE cl.tok.uid])
            ELSE [seen EXCEPT !.pc = "done", !.status = "UNAUTHENTICATED"]]
    /\ UNCHANGED <<constVars, streamVars, lockVars, bcastVars, saveVars, workerVars, adminVars, reapVars>>
    /\ UNCHANGED <<processed, stampVars, catalogVars, joinVars, pruneVars>>
    /\ UNCHANGED <<burst, visitors, rlLog, ever>>

\* The chain is through: the method's handler is invoked and returns.
HandlerRun(c) ==
    /\ call[c].pc = "handler"
    /\ call' = [call EXCEPT ![c] =
          [@ EXCEPT !.handled = TRUE, !.pc = "done", !.status = "OK"]]
    /\ UNCHANGED <<constVars, streamVars, lockVars, bcastVars, saveVars, workerVars, adminVars, reapVars>>
    /\ UNCHANGED <<processed, stampVars, catalogVars, joinVars, pruneVars>>
    /\ UNCHANGED <<burst, visitors, rlLog, ever>>

\* The status has gone back to the caller; the server keeps nothing of the
\* call.
CallReturn(c) ==
    /\ call[c].pc = "done"
    /\ call' = [call EXCEPT ![c] = [NoCall EXCEPT !.pc = "returned"]]
    /\ UNCHANGED <<constVars, streamVars, lockVars, bcastVars, saveVars, workerVars, adminVars, reapVars>>
    /\ UNCHANGED <<processed, stampVars, catalogVars, joinVars, pruneVars>>
    /\ UNCHANGED <<burst, visitors, rlLog, ever>>

\* Variant: the sweep deletes every visitor it finds.
Expired_Any(v, t) == TRUE
\* cleanupVisitors: time.Since(v.lastSeen) > 3*time.Minute.
Expired(v, t) == t > v.lastSeen

\* cleanupVisitors: visitors not seen for more than 3 minutes are deleted.
CleanupVisitors ==
    /\ \E p \in DOMAIN visitors : Expired(visitors[p], now)
    /\ visitors' = [p \in {q \in DOMAIN visitors : ~Expired(visitors[q], now)} |->
                        visitors[p]]
    /\ UNCHANGED <<constVars, streamVars, lockVars, bcastVars, saveVars, workerVars, adminVars, reapVars>>
    /\ UNCHANGED <<processed, stampVars, catalogVars, joinVars, pruneVars>>
    /\ UNCHANGED <<burst, rlLog, call, ever>>

\* ------------------------------------------- Login, CreateUser, UpdatePassword
\* User.PasswordMatches: ok when the hash is of the input; err when
\* CompareHashAndPassword fails for another reason than a mismatch.
PasswordMatches(hash, input) ==
    [ok |-> hash.alg = "bcrypt" /\ hash.of = input, err |-> hash.alg # "bcrypt"]

RowOf(acc, u) ==
    [id |-> u, email |-> acc[u].email, password |-> acc[u].password,
     role |-> acc[u].role]

\* DB.StoreUser fails when another row holds the email (email TEXT UNIQUE).
StoreUserOK(acc, row) ==
    ~\E u \in DOMAIN acc : u # row.id /\ acc[u].email = row.email

\* DB.StoreUser: INSERT ... ON CONFLICT (id) DO UPDATE.
StoreUser(acc, row) ==
    [u \in DOMAIN acc \cup {row.id} |->
        IF u = row.id
        THEN [email |-> row.email, password |-> row.password, role |-> row.role]
        ELSE acc[u]]

\* CreateUser's id: 16 random bytes, taken to be fresh.
NewID(c) == "n" \o ToString(c)

\* Variant: any authenticated caller may create users.
CreateAllowed_Anyone(role) == TRUE

\* CreateUser: caller.Role != "admin" is turned away.
CreateAllowed(role) == role = "admin"

\* Variant: a non-admin may target any user.
UpdateAllowed_Anyone(caller, email) == TRUE

\* UpdatePassword: users update their own password unless they are an admin.
UpdateAllowed(caller, email) == caller.email = email \/ caller.role = "admin"

\* UpdatePassword: the old password is verified unless the caller is an admin.
OldPasswordNeeded(role) == role # "admin"

Finish(o, st, m) == [o EXCEPT !.pc = "done", !.status = st, !.msg = m]

\* A Login call arrives; the method is public.
LoginStart(c) ==
    /\ acall[c].pc = "idle"
    /\ \E e \in Emails \cup {""}, p \in Passwords \cup {""} :
        acall' = [acall EXCEPT ![c] =
            [NoOp EXCEPT !.pc = "login", !.op = "Login", !.email = e, !.pw = p,
                         !.existed = GetUserByEmail(accounts, e) # {}]]
    /\ UNCHANGED <<constVars, streamVars, lockVars, bcastVars, saveVars, workerVars, reapVars>>
    /\ UNCHANGED <<processed, stampVars, catalogVars, joinVars, pruneVars, gateVars>>
    /\ UNCHANGED accounts

\* Login: input check, GetUserByEmail, PasswordMatches, token.
Login(c) ==
    /\ acall[c].pc = "login"
    /\ LET o == acall[c]
           found == GetUserByEmail(accounts, o.email)
           u == CHOOSE x \in found : TRUE
           m == PasswordMatches(accounts[u].password, o.pw)
       IN acall' = [acall EXCEPT ![c] =
            IF o.email = "" \/ o.pw = ""
            THEN Finish(o, "INVALID_ARGUMENT", "email and password are required")
            ELSE IF found = {}
            THEN Finish(o, "UNAUTHENTICATED", "invalid credentials")
            ELSE IF m.err
            THEN Finish(o, "INTERNAL", "internal auth error")
            ELSE IF ~m.ok
            THEN Finish(o, "UNAUTHENTICATED", "invalid credentials")
            ELSE Finish([o EXCEPT !.row = RowOf(accounts, u)], "OK", "")]
    /\ UNCHANGED <<constVars, streamVars, lockVars, bcastVars, saveVars, workerVars, reapVars>>
    /\ UNCHANGED <<processed, stampVars, catalogVars, joinVars, pruneVars, gateVars>>
    /\ UNCHANGED accounts

\* A CreateUser or UpdatePassword call has passed AuthInterceptor, which put
\* the caller's users row in the context.
AdminStart(c) ==
    /\ acall[c].pc = "idle"
    /\ \E op \in {"CreateUser", "UpdatePassword"}, u \in DOMAIN accounts,
          e \in Emails, p \in Passwords :
        \E old \in IF op = "UpdatePassword" THEN Passwords ELSE {""},
           r \in IF op = "CreateUser" THEN {"user", "admin"} ELSE {""} :
            acall' = [acall EXCEPT ![c] =
                [NoOp EXCEPT !.pc = IF op = "CreateUser" THEN "create" ELSE "update",
                             !.op = op,
                             !.caller = [id |-> u, email |-> accounts[u].email,
                                         role |-> accounts[u].role],
                             !.email = e, !.pw = p, !.old = old, !.role = r,
                             !.existed = GetUserByEmail(accounts, e) # {}]]
    /\ UNCHANGED <<constVars, streamVars, lockVars, bcastVars, saveVars, workerVars, reapVars>>
    /\ UNCHANGED <<processed, stampVars, catalogVars, joinVars, pruneVars, gateVars>>
    /\ UNCHANGED accounts

\* CreateUser: the role check, the new id and the password hash.
CreateUserCheck(c) ==
    /\ acall[c].pc = "create"
    /\ LET o == acall[c] IN
       acall' = [acall EXCEPT ![c] =
            IF ~CreateAllowed(o.caller.role)
            THEN Finish(o, "PERMISSION_DENIED", "only admins can create users")
            ELSE [o EXCEPT !.pc = "create_store",
                           !.row = [id |-> NewID(c), email |-> o.email,
                                    password |-> Hash(o.pw), role |-> o.role]]]
    /\ UNCHANGED <<constVars, streamVars, lockVars, bcastVars, saveVars, workerVars, reapVars>>
    /\ UNCHANGED <<processed, stampVars, catalogVars, joinVars, pruneVars, gateVars>>
    /\ UNCHANGED accounts

\* CreateUser: DB.StoreUser(newUser); an error is answered with Internal.
CreateUserStore(c) ==
    /\ acall[c].pc = "create_store"
    /\ LET o == acall[c] IN
       IF StoreUserOK(accounts, o.row)
       THEN /\ accounts' = StoreUser(accounts, o.row)
            /\ acall' = [acall EXCEPT ![c] = Finish([o EXCEPT !.wrote = TRUE], "OK", "")]
       ELSE /\ acall' = [acall EXCEPT ![c] = Finish(o, "INTERNAL", "failed to store user")]
            /\ UNCHANGED accounts
    /\ UNCHANGED <<constVars, streamVars, lockVars, bcastVars, saveVars, workerVars, reapVars>>
    /\ UNCHANGED <<processed, stampVars, catalogVars, joinVars, pruneVars, gateVars>>

\* UpdatePassword: who may update whose password.
UpdatePasswordCheck(c) ==
    /\ acall[c].pc = "update"
    /\ LET o == acall[c] IN
       acall' = [acall EXCEPT ![c] =
            IF ~UpdateAllowed(o.caller, o.email)
            THEN Finish(o, "PERMISSION_DENIED", "unauthorized password update")
            ELSE [o EXCEPT !.pc = "update_get"]]
    /\ UNCHANGED <<constVars, streamVars, lockVars, bcastVars, saveVars, workerVars, reapVars>>
    /\ UNCHANGED <<processed, stampVars, catalogVars, joinVars, pruneVars, gateVars>>
    /\ UNCHANGED accounts

\* UpdatePassword: GetUserByEmail, the old password, the new hash.
UpdatePasswordGet(c) ==
    /\ acall[c].pc = "update_get"
    /\ LET o == acall[c]
           found == GetUserByEmail(accounts, o.email)
           u == CHOOSE x \in found : TRUE
           row == RowOf(accounts, u)
       IN acall' = [acall EXCEPT ![c] =
            IF found = {}
            THEN Finish(o, "NOT_FOUND", "user not found")
            ELSE IF OldPasswordNeeded(o.caller.role)
                    /\ ~PasswordMatches(row.password, o.old).ok
            THEN Finish([o EXCEPT !.row = row], "UNAUTHENTICATED", "incorrect old password")
            ELSE [o EXCEPT !.pc = "update_store", !.row = row]]
    /\ UNCHANGED <<constVars, streamVars, lockVars, bcastVars, saveVars, workerVars, reapVars>>
    /\ UNCHANGED <<processed, stampVars, catalogVars, joinVars, pruneVars, gateVars>>
    /\ UNCHANGED accounts

\* UpdatePassword: SetPassword on the row that was read, DB.StoreUser(user).
UpdatePasswordStore(c) ==
    /\ acall[c].pc = "update_store"
    /\ LET o == acall[c]
           row == [o.row EXCEPT !.password = Hash(o.pw)]
       IN IF StoreUserOK(accounts, row)
          THEN /\ accounts' = StoreUser(accounts, row)
               /\ acall' = [acall EXCEPT ![c] = Finish([o EXCEPT !.wrote = TRUE], "OK", "")]
          ELSE /\ acall' = [acall EXCEPT ![c] = Finish(o, "INTERNAL", "failed to update user")]
               /\ UNCHANGED accounts
    /\ UNCHANGED <<constVars, streamVars, lockVars, bcastVars, saveVars, workerVars, reapVars>>
    /\ UNCHANGED <<processed, stampVars, catalogVars, joinVars, pruneVars, gateVars>>

\* ------------------------------------------------------------- room reaper
\* Variant: the reaper hands its check interval to the store.
ReaperArg_Interval(checkInterval, staleThreshold) == checkInterval

\* StartRoomReaper: s.DB.ReapStaleRooms(staleThreshold).
ReaperArg(checkInterval, staleThreshold) == staleThreshold

\* The timestamps of a room's messages.
RoomTimes(msgs, r) == {msgs[i].ts : i \in {j \in 1..Len(msgs) : msgs[j].room = r}}

\* ReapStaleRooms: the rooms whose most recent message is older than the
\* threshold at clock value t.
StaleRooms(tbl, msgs, t, thr) ==
    {r \in tbl : /\ RoomTimes(msgs, r) # {}
                 /\ \A ts \in RoomTimes(msgs, r) : t - ts > thr}

\* ReapStaleRooms: the messages of the deleted rooms go with them.
ReapMessages(msgs, gone) == SelectSeq(msgs, LAMBDA m : m.room \notin gone)

\* StartRoomReaper: the ticker fires and ReapStaleRooms runs; an error is
\* logged and the loop waits for the next tick.
ReapPass ==
    /\ now >= rnext
    /\ rnext' = now + rint
    /\ \E ok \in BOOLEAN :
        LET gone == IF ok
                    THEN StaleRooms(roomsTbl, messages, now, ReaperArg(rint, rthr))
                    ELSE {}
        IN /\ roomsTbl' = roomsTbl \ gone
           /\ messages' = ReapMessages(messages, gone)
           /\ rlog' = [n |-> rlog.n + 1, at |-> now, ok |-> ok, removed |-> gone]
    /\ UNCHANGED <<constVars, streamVars, lockVars, bcastVars, saveVars>>
    /\ UNCHANGED <<processed, stampVars, joinVars, pruneVars, gateVars, adminVars>>
    /\ UNCHANGED <<history, saved, wpc, wreq, storeLog, rint, rthr>>

Next ==
    \/ \E s \in Streams : StreamOpen(s, FreshTokens(s, now))
    \/ \E s \in Streams : RecvFirst(s, PlaneHandshakes(s))
    \/ \E s \in Streams : RecvFirstFail(s)
    \/ \E s \in Streams : RegisterLock(s)
    \/ \E s \in Streams : RegisterInsert(s)
    \/ \E s \in Streams : Recv(s, LoopFrames(s, nrecv[s] + 1))
    \/ \E s \in Streams : RecvEnd(s)
    \/ \E s \in Streams : Stamp(s)
    \/ \E s \in Streams : BroadcastRLock(s)
    \/ \E s \in Streams : BroadcastCopy(s)
    \/ \E s \in Streams : BroadcastSend(s)
    \/ \E s \in Streams : Persist(s)
    \/ \E s \in Streams : DeregisterLock(s)
    \/ \E s \in Streams : DeregisterDelete(s)
    \/ WorkerRecv
    \/ WorkerStore

Spec == Init /\ [][Next]_vars

\* Handshake frames with no message content: the stream registers and
\* processes nothing.
HandshakeInputs(s) ==
    [src : {s}, n : {1}, room : Rooms, type : {TEXT}, text : {FALSE}, ts : ClientTs,
     user : ClientUser]

\* Authentication and registration under a running clock, with every kind of
\* token.
NextAuth ==
    \/ Tick
    \/ \E s \in Streams : StreamOpen(s, TokenInputs(now))
    \/ \E s \in Streams : RecvFirst(s, HandshakeInputs(s))
    \/ \E s \in Streams : RecvFirstFail(s)
    \/ \E s \in Streams : RegisterLock(s)
    \/ \E s \in Streams : RegisterInsert(s)
    \/ \E s \in Streams : RecvEnd(s)
    \/ \E s \in Streams : DeregisterLock(s)
    \/ \E s \in Streams : DeregisterDelete(s)

\* The server as main builds it; the queue capacity plays no part here.
InitAuth == Init /\ qcap = QueueCap

SpecAuth == InitAuth /\ [][NextAuth]_vars

\* The streams of the save-pipeline runs: one producer.
SaveStreams == {1}

\* The save pipeline: one stream feeding the queue, and the save worker with
\* its heartbeat ticker.
NextSave ==
    \/ \E s \in SaveStreams : StreamOpen(s, FreshTokens(s, now))
    \/ \E s \in SaveStreams : RecvFirst(s, PlaneHandshakes(s))
    \/ \E s \in SaveStreams : RecvFirstFail(s)
    \/ \E s \in SaveStreams : RegisterLock(s)
    \/ \E s \in SaveStreams : RegisterInsert(s)
    \/ \E s \in SaveStreams : Recv(s, LoopFrames(s, nrecv[s] + 1))
    \/ \E s \in SaveStreams : RecvEnd(s)
    \/ \E s \in SaveStreams : Stamp(s)
    \/ \E s \in SaveStreams : BroadcastRLock(s)
    \/ \E s \in SaveStreams : BroadcastCopy(s)
    \/ \E s \in SaveStreams : BroadcastSend(s)
    \/ \E s \in SaveStreams : Persist(s)
    \/ \E s \in SaveStreams : DeregisterLock(s)
    \/ \E s \in SaveStreams : DeregisterDelete(s)
    \/ WorkerRecv
    \/ WorkerStore
    \/ WorkerHeartbeat

\* The save worker is a goroutine of its own, started by main and never
\* stopped: the scheduler keeps running it, and its select keeps taking the
\* queue case while a request is waiting.
SpecSave ==
    /\ Init
    /\ [][NextSave]_vars
    /\ WF_vars(WorkerRecv)
    /\ WF_vars(WorkerStore)

\* Timestamps a client can put in a frame: unset, or a date in the future.
ClientClock == {0, MaxTime + 1}

\* TEXT frames with content for one room, carrying any client timestamp.
StampFrames(s, k) ==
    [src : {s}, n : {k}, room : {"r1"}, type : {TEXT}, text : {TRUE}, ts : ClientClock,
     user : ClientUser]

\* Handshake frames of the stamping runs: the first client's has content, the
\* others subscribe without saying anything.
StampHandshakes(s) ==
    IF s = 1
    THEN StampFrames(s, 1)
    ELSE [src : {s}, n : {1}, room : {"r1"}, type : {TEXT}, text : {FALSE}, ts : {0},
          user : ClientUser]

\* Tokens of the stamping runs: one per client, issued by Login at clock 0.
StampTokens(s) ==
    [present : {TRUE}, uid : {IF s = 1 THEN "u1" ELSE "u2"}, iat : {0}, sig : {TRUE}]

\* Receiving, stamping and fan-out under a running clock.
NextStamp ==
    \/ Tick
    \/ \E s \in Streams : StreamOpen(s, StampTokens(s))
    \/ \E s \in Streams : RecvFirst(s, StampHandshakes(s))
    \/ \E s \in Streams : RegisterLock(s)
    \/ \E s \in Streams : RegisterInsert(s)
    \/ \E s \in Streams : Recv(s, StampFrames(s, nrecv[s] + 1))
    \/ \E s \in Streams : Stamp(s)
    \/ \E s \in Streams : BroadcastRLock(s)
    \/ \E s \in Streams : BroadcastCopy(s)
    \/ \E s \in Streams : BroadcastSend(s)
    \/ \E s \in Streams : Persist(s)

SpecStamp == InitAuth /\ [][NextStamp]_vars

\* The catalog beside the message plane: JoinRoom calls of one user, one
\* stream feeding the save queue, the save worker and the prune worker.
NextRooms ==
    \/ \E c \in Joins : JoinStart(c, {"u1"}, Rooms, {""})
    \/ \E c \in Joins : JoinGetRoom(c)
    \/ \E c \in Joins : JoinStoreRoom(c)
    \/ \E c \in Joins : JoinGetUser(c)
    \/ \E c \in Joins : JoinStoreUser(c)
    \/ \E s \in SaveStreams : StreamOpen(s, FreshTokens(s, now))
    \/ \E s \in SaveStreams : RecvFirst(s, PlaneHandshakes(s))
    \/ \E s \in SaveStreams : RegisterLock(s)
    \/ \E s \in SaveStreams : RegisterInsert(s)
    \/ \E s \in SaveStreams : Recv(s, LoopFrames(s, nrecv[s] + 1))
    \/ \E s \in SaveStreams : Stamp(s)
    \/ \E s \in SaveStreams : BroadcastRLock(s)
    \/ \E s \in SaveStreams : BroadcastCopy(s)
    \/ \E s \in SaveStreams : BroadcastSend(s)
    \/ \E s \in SaveStreams : Persist(s)
    \/ WorkerRecv
    \/ WorkerStore
    \/ PruneStart(KeepInputs)
    \/ PruneDelete

SpecRooms == InitAuth /\ [][NextRooms]_vars

\* RPCs of every method arriving from two peers under a running clock.
NextGate ==
    \/ Tick
    \/ \E c \in Calls : CallStart(c)
    \/ \E c \in Calls : RateStep(c)
    \/ \E c \in Calls : AuthStep(c)
    \/ \E c \in Calls : HandlerRun(c)
    \/ \E c \in Calls : CallReturn(c)
    \/ CleanupVisitors

\* NewRateLimiter(rps, burst) with any burst up to MaxBurst.
InitGate ==
    /\ InitPlane /\ qcap = QueueCap
    /\ InitSide /\ InitCatalog /\ InitCalls
    /\ burst \in 1..MaxBurst
    /\ InitAccounts

SpecGate == InitGate /\ [][NextGate]_vars

\* ------------------------------------------------------------- properties
\* ------------------------------------------------- specification: history
\* Room names for the JoinRoom calls: one more than the history holds.
HistoryRooms == {"a", "b", "c", "d", "e", "f", "g", "h", "i", "j", "k"}

Reverse(q) == [i \in 1..Len(q) |-> q[Len(q) + 1 - i]]

\* Histories a user row holds after earlier JoinRoom calls: none; c, b, a;
\* a to j, which fills the history.
HistoryInputs ==
    {<<>>, <<"a", "b", "c">>,
     <<"j", "i", "h", "g", "f", "e", "d", "c", "b", "a">>}

\* The catalog those calls left: a rooms row for every room joined, and the
\* rooms saved in the order of joining.
InitHistoryCatalog ==
    \E h \in HistoryInputs :
        /\ roomsTbl = {h[i] : i \in 1..Len(h)}
        /\ history = [u \in DBUsers |-> IF u = "u1" THEN h ELSE <<>>]
        /\ saved = [u \in DBUsers |-> IF u = "u1" THEN Reverse(h) ELSE <<>>]

InitHistory ==
    /\ InitPlane /\ qcap = QueueCap
    /\ InitSide /\ InitHistoryCatalog
    /\ InitCalls /\ burst = MaxBurst
    /\ InitAccounts

\* JoinRoom calls of the two users, concurrent or one after another.
NextHistory ==
    \/ \E c \in Joins : JoinStart(c, DBUsers, HistoryRooms, {""})
    \/ \E c \in Joins : JoinGetRoom(c)
    \/ \E c \in Joins : JoinStoreRoom(c)
    \/ \E c \in Joins : JoinGetUser(c)
    \/ \E c \in Joins : JoinStoreUser(c)

SpecHistory == InitHistory /\ [][NextHistory]_vars

\* ------------------------------------------- specification: JoinRoom lookups
\* JoinRoom calls of the two users with any email in the request, the lookup
\* of the caller's row succeeding or not.
NextJoin ==
    \/ \E c \in Joins : JoinStart(c, DBUsers, Rooms, Emails)
    \/ \E c \in Joins : JoinGetRoom(c)
    \/ \E c \in Joins : JoinStoreRoom(c)
    \/ \E c \in Joins : JoinGetUser(c)
    \/ \E c \in Joins : JoinGetUserFail(c)
    \/ \E c \in Joins : JoinStoreUser(c)

SpecJoin == InitAuth /\ [][NextJoin]_vars

\* ------------------------------------------- specification: processing order
\* Receiving, stamping, fan-out and persistence under a running clock.
NextOrder ==
    \/ Tick
    \/ \E s \in Streams : StreamOpen(s, StampTokens(s))
    \/ \E s \in Streams : RecvFirst(s, StampHandshakes(s))
    \/ \E s \in Streams : RegisterLock(s)
    \/ \E s \in Streams : RegisterInsert(s)
    \/ \E s \in Streams : Recv(s, StampFrames(s, nrecv[s] + 1))
    \/ \E s \in Streams : Stamp(s)
    \/ \E s \in Streams : BroadcastRLock(s)
    \/ \E s \in Streams : BroadcastCopy(s)
    \/ \E s \in Streams : BroadcastSend(s)
    \/ \E s \in Streams : Persist(s)
    \/ WorkerRecv
    \/ WorkerStore

SpecOrder == InitAuth /\ [][NextOrder]_vars

\* ------------------------------------------------ specification: failed sends
\* The message plane with subscribers whose Send may fail.
NextSend ==
    \/ \E s \in Streams : StreamOpen(s, StampTokens(s))
    \/ \E s \in Streams : RecvFirst(s, StampHandshakes(s))
    \/ \E s \in Streams : RegisterLock(s)
    \/ \E s \in Streams : RegisterInsert(s)
    \/ \E s \in Streams : Recv(s, StampFrames(s, nrecv[s] + 1))
    \/ \E s \in Streams : RecvEnd(s)
    \/ \E s \in Streams : Stamp(s)
    \/ \E s \in Streams : BroadcastRLock(s)
    \/ \E s \in Streams : BroadcastCopy(s)
    \/ \E s \in Streams : BroadcastSend(s)
    \/ \E s \in Streams : BroadcastSendErr(s)
    \/ \E s \in Streams : Persist(s)
    \/ \E s \in Streams : DeregisterLock(s)
    \/ \E s \in Streams : DeregisterDelete(s)
    \/ WorkerRecv
    \/ WorkerStore

SpecSend == InitAuth /\ [][NextSend]_vars

\* --------------------------------------------- specification: concurrent sends
\* TEXT frames with content for one room.
ChatFrames(s, k) ==
    [src : {s}, n : {k}, room : {"r1"}, type : {TEXT}, text : {TRUE}, ts : ClientTs,
     user : ClientUser]

\* Streams of one room that all send, each Send taking two steps.
NextConcurrent ==
    \/ \E s \in Streams : StreamOpen(s, StampTokens(s))
    \/ \E s \in Streams : RecvFirst(s, ChatFrames(s, 1))
    \/ \E s \in Streams : RegisterLock(s)
    \/ \E s \in Streams : RegisterInsert(s)
    \/ \E s \in Streams : Recv(s, ChatFrames(s, nrecv[s] + 1))
    \/ \E s \in Streams : Stamp(s)
    \/ \E s \in Streams : BroadcastRLock(s)
    \/ \E s \in Streams : BroadcastCopy(s)
    \/ \E s \in Streams : BroadcastSendBegin(s)
    \/ \E s \in Streams : BroadcastSendEnd(s)
    \/ \E s \in Streams : Persist(s)
    \/ WorkerRecv
    \/ WorkerStore

SpecConcurrent == InitAuth /\ [][NextConcurrent]_vars

\* --------------------------------------------- specification: sender identity
\* TEXT frames with content for one room whose user_id and email fields name
\* any stored user: the sender or another one.
IdentityFrames(s, k) ==
    [src : {s}, n : {k}, room : {"r1"}, type : {TEXT}, text : {TRUE}, ts : ClientTs,
     user : DBUsers]

\* The message plane fed by clients that put any identity in their frames.
NextIdentity ==
    \/ \E s \in Streams : StreamOpen(s, StampTokens(s))
    \/ \E s \in Streams : RecvFirst(s, IdentityFrames(s, 1))
    \/ \E s \in Streams : RegisterLock(s)
    \/ \E s \in Streams : RegisterInsert(s)
    \/ \E s \in Streams : Recv(s, IdentityFrames(s, nrecv[s] + 1))
    \/ \E s \in Streams : Stamp(s)
    \/ \E s \in Streams : BroadcastRLock(s)
    \/ \E s \in Streams : BroadcastCopy(s)
    \/ \E s \in Streams : BroadcastSend(s)
    \/ \E s \in Streams : Persist(s)
    \/ WorkerRecv
    \/ WorkerStore

SpecIdentity == InitAuth /\ [][NextIdentity]_vars

\* ----------------------------------------------------- specification: prune
MaxRows == 4         \* rows of the messages table when a run starts
MaxKeep == 2         \* largest keep argument of a prune pass

\* A row the save worker inserted earlier, the i-th of the table.
StoredRow(i, r) == [src |-> NoStream, n |-> i, room |-> r, user |-> "u1", ts |-> 0]

\* Tables of up to MaxRows rows, each row in one of the rooms.
StoredTables ==
    UNION {{[i \in 1..k |-> StoredRow(i, f[i])] : f \in [1..k -> Rooms]} : k \in 0..MaxRows}

\* Save requests waiting in the queue when a run starts: none, or one per room.
QueuedRequests ==
    {<<>>} \cup
    {<<[src |-> 1, n |-> 1, room |-> r, user |-> "u1", ts |-> 0]>> : r \in Rooms}

\* A server that has been running: rows in the messages table, and possibly a
\* save request on its way.
InitPrune ==
    /\ InitServer /\ qcap = QueueCap
    /\ messages \in StoredTables
    /\ queue \in QueuedRequests
    /\ InitSide /\ InitCatalog
    /\ InitCalls /\ burst = MaxBurst
    /\ InitAccounts

\* The prune worker next to the save worker.
NextPrune ==
    \/ PruneStart(1..MaxKeep)
    \/ PruneDelete
    \/ WorkerRecv
    \/ WorkerStore

SpecPrune == InitPrune /\ [][NextPrune]_vars

\* ---------------------------------------------------- specification: reaper
MaxAge == 2          \* how long before the start the oldest stored message was stamped

\* A row the save worker inserted earlier, stamped at clock value t.
StampedRow(i, r, t) == [src |-> NoStream, n |-> i, room |-> r, user |-> "u1", ts |-> t]

ReapRows == 2        \* rows of the messages table when a reaper run starts

\* Tables of up to ReapRows rows, each in one of the rooms, stamped up to
\* MaxAge before the start.
StampedTables ==
    UNION {{[i \in 1..k |-> StampedRow(i, f[i][1], f[i][2])] :
                f \in [1..k -> Rooms \X ((0 - MaxAge)..0)]} : k \in 0..ReapRows}

\* A server that has been running: rooms, their messages, possibly a save
\* request on its way, and a reaper started with some interval and threshold.
InitReap ==
    /\ InitServer /\ qcap = QueueCap
    /\ messages \in StampedTables
    /\ queue \in QueuedRequests
    /\ InitWorkers
    /\ roomsTbl = Rooms
    /\ history = [u \in DBUsers |-> <<>>]
    /\ saved = [u \in DBUsers |-> <<>>]
    /\ InitCalls /\ burst = MaxBurst
    /\ InitAccounts
    /\ rint \in 1..MaxThreshold
    /\ rthr \in 1..MaxThreshold
    /\ rnext = rint
    /\ rlog = NoPass

\* The reaper next to the clock and the save worker.
NextReap ==
    \/ Tick
    \/ ReapPass
    \/ WorkerRecv
    \/ WorkerStore

SpecReap == InitReap /\ [][NextReap]_vars

\* -------------------------------------------------- specification: accounts
\* The users table of a deployment: the rows first-use setup and CreateUser
\* wrote, and possibly a row "u0" put there by other means, whose password
\* column holds no bcrypt hash.
InitAdmin ==
    /\ InitPlane /\ qcap = QueueCap
    /\ InitSide /\ InitCatalog
    /\ InitCalls /\ burst = MaxBurst
    /\ acall = [c \in ACalls |-> NoOp]
    /\ \/ accounts = FirstAccounts
       \/ accounts = [u \in DBUsers \cup {"u0"} |->
                        IF u = "u0"
                        THEN [email |-> "e3", password |-> NotAHash, role |-> "user"]
                        ELSE FirstAccounts[u]]

NextAdmin ==
    \/ \E c \in ACalls : LoginStart(c)
    \/ \E c \in ACalls : Login(c)
    \/ \E c \in ACalls : AdminStart(c)
    \/ \E c \in ACalls : CreateUserCheck(c)
    \/ \E c \in ACalls : CreateUserStore(c)
    \/ \E c \in ACalls : UpdatePasswordCheck(c)
    \/ \E c \in ACalls : UpdatePasswordGet(c)
    \/ \E c \in ACalls : UpdatePasswordStore(c)

SpecAdmin == InitAdmin /\ [][NextAdmin]_vars

ProcessedIds == {p.id : p \in processed}

SentHandles(id) == {h \in Streams : InSeq(id, sendLog[h])}

BroadcastDone(id) ==
    \/ id \in ProcessedIds
    \/ \E s \in Streams : pc[s] = "persist" /\ FrameId(cur[s]) = id

Before(q, a, b) == \E i, j \in 1..Len(q) : i < j /\ q[i] = a /\ q[j] = b

NoDuplicates(q) == \A i, j \in 1..Len(q) : q[i] = q[j] => i = j

\* C1: every frame passed to processMessage is sent by Broadcast to exactly
\* the handles the registry held for the frame's room when the snapshot was
\* copied -- the sender's own handle included when it is among them -- once
\* each, and to no other handle.
C1_BroadcastReachesSnapshot ==
    /\ \A h \in Streams : \A i \in 1..Len(sendLog[h]) :
          \E e \in snapLog : e.id = sendLog[h][i] /\ h \in e.handles
    /\ \A h \in Streams : NoDuplicates(sendLog[h])
    /\ \A e \in snapLog : BroadcastDone(e.id) => SentHandles(e.id) = e.handles
    /\ \A e1, e2 \in snapLog : e1.id = e2.id => e1 = e2
    /\ \A p \in processed : \E e \in snapLog : e.id = p.id

\* A processed frame whose snapshot held the sender and a co-subscriber, both
\* of which were sent the frame.
C1_Witness ==
    \E e \in snapLog :
        /\ e.id \in ProcessedIds
        /\ e.id[1] \in e.handles
        /\ Cardinality(e.handles) = 2
        /\ SentHandles(e.id) = e.handles

\* C2: for every processed frame whose type is not FILE_CHUNK, exactly one of
\* the two happened: its save request was placed on the save queue (once), or
\* the queue-full warning was logged.
C2_EnqueuedXorWarned ==
    /\ \A p \in processed :
          ~p.chunk => (InSeq(p.id, enqLog) # (p.id \in warned))
    /\ NoDuplicates(enqLog)
    /\ \A i \in 1..Len(enqLog) : enqLog[i] \in ProcessedIds
    /\ warned \subseteq ProcessedIds

\* One frame was enqueued and another was dropped with the warning.
C2_Witness ==
    \E p, q \in processed :
        /\ ~p.chunk /\ ~q.chunk
        /\ InSeq(p.id, enqLog) /\ p.id \notin warned
        /\ q.id \in warned /\ ~InSeq(q.id, enqLog)

\* C3: the save step of processMessage can always run, whatever the queue
\* holds and wherever the save worker is; on a full queue it leaves the queue
\* as it is, logs the warning and returns to the receive loop, and the dropped
\* frame is never passed to StoreMessage.
C3_SaveNeverBlocks ==
    /\ [](\A s \in Streams : pc[s] = "persist" => ENABLED Persist(s))
    /\ [][\A s \in Streams :
            (pc[s] = "persist" /\ pc'[s] # "persist"
               /\ cur[s].type # FILE_CHUNK /\ Len(queue) = qcap)
            => /\ queue' = queue
               /\ FrameId(cur[s]) \in warned'
               /\ pc'[s] = "recv"]_vars
    /\ [](\A id \in warned :
            /\ ~InSeq(id, storeLog)
            /\ \A i \in 1..Len(messages) : <<messages[i].src, messages[i].n>> # id
            /\ \A i \in 1..Len(queue) : <<queue[i].src, queue[i].n>> # id
            /\ <<wreq.src, wreq.n>> # id)

\* A frame was dropped while the queue was full and the save worker sat
\* inside StoreMessage; its processing has returned.
C3_Witness ==
    /\ wpc = "store"
    /\ Len(queue) = qcap
    /\ storeLog = <<>>
    /\ \E p \in processed : ~p.chunk /\ p.id \in warned

\* C4: two frames received in order on one stream are passed to Send in that
\* order on every handle that is sent both, and if both are enqueued their
\* requests are enqueued, and passed to StoreMessage, in that order.
C4_PerStreamOrder ==
    \A s \in Streams : \A i, j \in 1..MaxFrames :
        i < j =>
            /\ \A h \in Streams : ~Before(sendLog[h], <<s, j>>, <<s, i>>)
            /\ ~Before(enqLog, <<s, j>>, <<s, i>>)
            /\ ~Before(storeLog, <<s, j>>, <<s, i>>)
            /\ InSeq(<<s, j>>, storeLog) /\ InSeq(<<s, i>>, enqLog)
                  => InSeq(<<s, i>>, storeLog)

\* Two frames of one stream reached a co-subscriber, the queue (made with
\* room for both) and StoreMessage.
C4_Witness ==
    /\ Before(sendLog[2], <<1, 1>>, <<1, 2>>)
    /\ Before(storeLog, <<1, 1>>, <<1, 2>>)
    /\ Before(enqLog, <<1, 1>>, <<1, 2>>)
    /\ qcap = 2

\* C5: a FILE_CHUNK frame passed to processMessage is broadcast to the
\* handles of its room, and no save request for it is placed on the queue
\* (nor is a warning logged for it).
C5_ChunkNeverEnqueued ==
    /\ \A p \in processed :
          p.chunk =>
              /\ ~InSeq(p.id, enqLog)
              /\ p.id \notin warned
              /\ \E e \in snapLog : e.id = p.id /\ SentHandles(p.id) = e.handles
    /\ \A i \in 1..Len(enqLog) :
          \E p \in processed : p.id = enqLog[i] /\ ~p.chunk

\* A FILE_CHUNK frame reached the sender and a co-subscriber while the queue
\* had room, and nothing was ever enqueued.
C5_Witness ==
    \E p \in processed :
        /\ p.chunk
        /\ Cardinality(SentHandles(p.id)) = 2
        /\ enqLog = <<>>
        /\ warned = {}

\* The stream got past registerStream at some point.
WasRegistered(s) ==
    pc[s] \in {"recv", "stamp", "bcast_rlock", "bcast_copy", "bcast_send",
               "persist", "dereg_lock", "dereg_delete", "closed"}
    /\ roomID[s] # ""

Displaced(h) == WasRegistered(h) /\ h \notin RegistryHandles(streams)

C7_DeregisteredOnExit ==
    \A s \in Streams :
        (pc[s] = "closed" /\ roomID[s] # "") => s \notin RegistryHandles(streams)

\* A registered stream ended on a receive error other than EOF while a
\* co-subscriber stays registered.
C7_Witness ==
    \E s, o \in Streams :
        /\ pc[s] = "closed"
        /\ status[s] = "ERR"
        /\ roomID[s] # ""
        /\ o # s
        /\ o \in RegistryHandles(streams)

\* A token that verifies at clock value at: present, correctly signed, and
\* less than 24 h old.
TokenVerifies(t, at) == t.present /\ t.sig /\ at < t.iat + TokenTTL

\* C8: a Stream RPC opened without authorization metadata, or with a token
\* that fails verification, is rejected with UNAUTHENTICATED, its handler
\* never runs, and the registry never holds an entry for it.
C8_UnauthenticatedRejected ==
    \A s \in Streams :
        (pc[s] # "idle" /\ ~TokenVerifies(tok[s], authAt[s]))
        => /\ pc[s] = "rejected"
           /\ status[s] = "UNAUTHENTICATED"
           /\ ctxUser[s] = ""
           /\ roomID[s] = ""
           /\ nrecv[s] = 0
           /\ s \notin RegistryHandles(streams)

\* One stream was opened without a token and one with an expired token; both
\* were rejected.
C8_Witness ==
    \E s, o \in Streams :
        /\ pc[s] = "rejected" /\ ~tok[s].present
        /\ pc[o] = "rejected" /\ tok[o].present /\ tok[o].sig
        /\ tok[o].uid \in DBUsers
        /\ authAt[o] >= tok[o].iat + TokenTTL

\* C9 as stated: the token of every handle in the registry verified at the
\* time registerStream inserted the handle.
C9_ValidAtRegistration ==
    \A s \in RegistryHandles(streams) : TokenVerifies(tok[s], regAt[s])

\* C9, amended: the token of every handle in the registry verified at the time
\* StreamAuthInterceptor checked it, when the stream was opened, which is not
\* later than the time registerStream inserted the handle.
C9_ValidAtInterceptor ==
    \A s \in RegistryHandles(streams) :
        /\ TokenVerifies(tok[s], authAt[s])
        /\ authAt[s] <= regAt[s]

\* A handle in the registry whose token verified when the stream was opened
\* and had expired when the handshake frame arrived and the handle was
\* inserted.
C9_Witness ==
    \E s \in RegistryHandles(streams) :
        /\ TokenVerifies(tok[s], authAt[s])
        /\ ~TokenVerifies(tok[s], regAt[s])

InCritical(s) == pc[s] \in {"bcast_copy", "reg_insert", "dereg_delete"}

\* C10: streamMu is not held during the send loop of Broadcast -- the read
\* lock is held only while the handles are copied -- so with streams blocked
\* in Send and no stream inside a critical section, Register and Deregister
\* can take the lock at once.
C10_NoLockDuringSend ==
    /\ \A s \in Streams : pc[s] = "bcast_send" => (s \notin lockR /\ lockW # s)
    /\ \A s \in lockR : pc[s] = "bcast_copy"
    /\ lockW # NoStream => pc[lockW] \in {"reg_insert", "dereg_delete"}
    /\ \A s \in Streams :
          (\A o \in Streams \ {s} : ~InCritical(o))
          => /\ pc[s] = "reg_lock" => ENABLED RegisterLock(s)
             /\ pc[s] = "dereg_lock" => ENABLED DeregisterLock(s)

\* One stream is in the middle of its send loop while another holds the write
\* lock inside registerStream.
C10_Witness ==
    \E s, o \in Streams :
        /\ pc[s] = "bcast_send"
        /\ sentTo[s] = {}
        /\ pc[o] = "reg_insert"
        /\ lockW = o
\* C11: under fair scheduling of the save worker, every save request placed
\* on the queue is eventually passed to StoreMessage, and no request is passed
\* twice or without having been enqueued -- also once StoreMessage has failed
\* for an earlier request.
C11_EveryRequestStoredOnce ==
    /\ \A s \in Streams : \A n \in 1..MaxFrames :
          InSeq(<<s, n>>, enqLog) ~> InSeq(<<s, n>>, storeLog)
    /\ [](NoDuplicates(storeLog))
    /\ [](\A i \in 1..Len(storeLog) : InSeq(storeLog[i], enqLog))

\* StoreMessage failed for the first request and the worker went on to store
\* the second.
C11_Witness ==
    /\ storeLog = <<<<1, 1>>, <<1, 2>>>>
    /\ Len(messages) = 1
    /\ <<messages[1].src, messages[1].n>> = <<1, 2>>
\* The overload scenario has run: the queue was made with capacity 1, the
\* first stream has sent all its frames, none of them a FILE_CHUNK, and no
\* other stream has sent a frame with content.
OneSenderDone ==
    /\ qcap = 1
    /\ processed = {[id |-> <<1, n>>, chunk |-> FALSE] : n \in 1..MaxFrames}

AllBroadcast ==
    \A p \in processed :
        \E e \in snapLog : e.id = p.id /\ SentHandles(p.id) = e.handles

Drained == queue = <<>> /\ wpc = "select"

\* C12 as stated: after the overload scenario, with the queue drained and no
\* StoreMessage failure, every frame was broadcast, between 1 and all of them
\* are persisted, and at least one queue-full warning was logged.
C12_OverloadAlwaysWarns ==
    (OneSenderDone /\ Drained /\ Len(messages) = Len(storeLog))
    => /\ AllBroadcast
       /\ Len(messages) >= 1
       /\ Len(messages) <= MaxFrames
       /\ warned # {}

\* C12, amended: after the overload scenario every frame was broadcast,
\* between 1 and all of them were enqueued, a queue-full warning was logged for
\* exactly the frames that were not enqueued -- which may be none -- and, once
\* the queue is drained with no StoreMessage failure, the enqueued frames are
\* the persisted ones.
C12_OverloadBestEffort ==
    OneSenderDone
    => /\ AllBroadcast
       /\ Len(enqLog) >= 1
       /\ Len(enqLog) <= MaxFrames
       /\ Len(enqLog) + Cardinality(warned) = MaxFrames
       /\ \A id \in warned : ~InSeq(id, enqLog)
       /\ Len(messages) <= Len(enqLog)
       /\ (Drained /\ Len(messages) = Len(storeLog)) => Len(messages) = Len(enqLog)

\* The overload scenario ran with a co-subscriber that was sent every frame,
\* the save worker kept up, and no warning was logged.
C12_Witness ==
    /\ OneSenderDone
    /\ Drained
    /\ \A n \in 1..MaxFrames : InSeq(<<1, n>>, sendLog[2])
    /\ Len(messages) = MaxFrames
    /\ warned = {}
\* C13: every frame passed to Send carries the server clock's value at a
\* moment of its processing -- not before the frame was received and not after
\* the present -- whatever timestamp the client sent it with.
C13_ServerStamped ==
    \A d \in delivered :
        /\ d.rcv.at <= d.ts
        /\ d.ts <= now

\* The same frame of one stream was delivered with a stamp later than its
\* receipt although the client dated it in the future, and another frame was
\* delivered with a server stamp although the client dated it in the past.
C13_Witness ==
    \E d, e \in delivered :
        /\ d.rcv.ts > now
        /\ d.rcv.at < d.ts
        /\ e.rcv.ts < e.rcv.at
        /\ e.ts >= e.rcv.at
\* C14 as stated: the room_id of every row of the messages table is the id of
\* a row of the rooms table.
C14_MessageRoomExists ==
    \A i \in 1..Len(messages) : messages[i].room \in roomsTbl
Min(a, b) == IF a < b THEN a ELSE b

\* C15: of the calls a peer makes at one instant on a full bucket, the first
\* burst are allowed and every further one is denied; a denied call returns
\* RESOURCE_EXHAUSTED and its handler is not invoked.
C15_BurstThenDenied ==
    /\ \A p \in Peers :
          rlLog[p].allowed = Min(rlLog[p].allowed + rlLog[p].denied, burst)
    /\ \A c \in Calls :
          call[c].rate = "denied"
          => /\ call[c].pc = "done"
             /\ call[c].status = "RESOURCE_EXHAUSTED"
             /\ ~call[c].handled
    /\ \A c \in Calls :
          call[c].rate = "allowed" => call[c].status # "RESOURCE_EXHAUSTED"

\* A limiter made with burst 2: at clock 0 a peer's bucket was created, two
\* calls were allowed and the third, still before its return, was denied;
\* the other peer's bucket is untouched.
C15_Witness ==
    /\ now = 0
    /\ burst = 2
    /\ rlLog["p1"] = [allowed |-> 2, denied |-> 1]
    /\ visitors["p1"].tokens = 0
    /\ "p2" \notin DOMAIN visitors
    /\ \E c \in Calls : call[c].peer = "p1" /\ call[c].rate = "denied"

\* C16: a call that returns RESOURCE_EXHAUSTED has not had its token verified
\* nor its handler invoked, and a call whose token was verified or whose
\* handler was invoked has first been allowed by its peer's bucket -- for the
\* unary methods and for Stream alike.
C16_RateLimitBeforeAuth ==
    \A c \in Calls :
        /\ call[c].status = "RESOURCE_EXHAUSTED"
           => (call[c].authAt < 0 /\ ~call[c].verified /\ ~call[c].handled)
        /\ call[c].authAt >= 0 => call[c].rate = "allowed"
        /\ call[c].handled => call[c].rate = "allowed"

\* A Stream call and a JoinRoom call, both carrying a token that would
\* verify, were denied by the rate limiter before the token was looked at.
C16_Witness ==
    \E c, d \in Calls :
        /\ call[c].method = "Stream" /\ call[d].method = "JoinRoom"
        /\ call[c].status = "RESOURCE_EXHAUSTED"
        /\ call[d].status = "RESOURCE_EXHAUSTED"
        /\ TokenVerifies(call[c].tok, now) /\ TokenVerifies(call[d].tok, now)
        /\ ~call[c].verified /\ ~call[d].verified

\* C17: a unary call of a method other than Login whose token is missing,
\* malformed, expired or wrongly signed when AuthInterceptor looks at it
\* returns UNAUTHENTICATED without its handler being invoked; a handler that
\* was invoked is Login's or follows a token that verified.
C17_OnlyLoginPublic ==
    \A c \in Calls :
        /\ (/\ call[c].method \in UnaryMethods \ {"Login"}
            /\ call[c].authAt >= 0
            /\ ~TokenVerifies(call[c].tok, call[c].authAt))
           => /\ call[c].pc = "done"
              /\ call[c].status = "UNAUTHENTICATED"
              /\ ~call[c].handled
        /\ call[c].handled
           => \/ call[c].method = "Login"
              \/ (call[c].verified /\ TokenVerifies(call[c].tok, call[c].authAt))

\* Login's handler ran for a call without a token while a JoinRoom call with
\* a token that expired before AuthInterceptor saw it was turned away.
C17_Witness ==
    \E c, d \in Calls :
        /\ call[c].method = "Login" /\ ~call[c].tok.present /\ call[c].handled
        /\ call[d].method = "JoinRoom"
        /\ call[d].tok.sig /\ call[d].tok.uid = "u1"
        /\ call[d].authAt >= call[d].tok.iat + TokenTTL
        /\ call[d].tok.iat = 0
        /\ call[d].status = "UNAUTHENTICATED"

\* C18 as stated: a call whose token verifies is authenticated whatever the
\* user store holds.
C18_StatelessAuth ==
    \A c \in Calls :
        (/\ call[c].method # "Login"
         /\ call[c].authAt >= 0
         /\ TokenVerifies(call[c].tok, call[c].authAt))
        => call[c].status # "UNAUTHENTICATED"

\* C19: every user's history has at most 10 entries and no room name twice.
C19_HistoryCappedNoDuplicates ==
    \A u \in DBUsers :
        Len(history[u]) <= HistoryCap /\ NoDuplicates(history[u])

\* A JoinRoom call read a full history without its room and wrote back a
\* history of 10 entries that starts with the room and has lost the oldest.
C19_Witness ==
    \E c \in Joins :
        /\ jpc[c] = "done"
        /\ Len(jin[c].history) = HistoryCap
        /\ ~InSeq(jarg[c].room, jin[c].history)
        /\ history[jarg[c].user] = jout[c]
        /\ Len(jout[c]) = HistoryCap
        /\ ~InSeq(jin[c].history[HistoryCap], jout[c])

C22_NonAdminCreateDenied ==
    /\ [](\A c \in ACalls :
            (acall[c].op = "CreateUser" /\ acall[c].caller.role # "admin")
            => /\ acall[c].pc \in {"create", "done"}
               /\ acall[c].pc = "done" => acall[c].status = "PERMISSION_DENIED")
    /\ [][\A c \in ACalls :
            (/\ acall[c].op = "CreateUser"
             /\ acall[c].caller.role # "admin"
             /\ acall'[c] # acall[c])
            => accounts' = accounts]_vars

\* The user "u2" asked for a new user with a free email and was denied; the
\* users table is as it was.
C22_Witness ==
    \E c \in ACalls :
        /\ acall[c].op = "CreateUser" /\ acall[c].pc = "done"
        /\ acall[c].caller.id = "u2"
        /\ acall[c].email = "e3" /\ ~acall[c].existed
        /\ acall[c].status = "PERMISSION_DENIED"
        /\ accounts = FirstAccounts

\* C23 as stated: an admin's CreateUser for an email that was stored when the
\* call arrived returns ALREADY_EXISTS and inserts nothing, and no two rows
\* hold one email.
C23_DuplicateAlreadyExists ==
    /\ \A c \in ACalls :
          (/\ acall[c].op = "CreateUser" /\ acall[c].pc = "done"
           /\ acall[c].caller.role = "admin"
           /\ acall[c].existed)
          => (acall[c].status = "ALREADY_EXISTS" /\ ~acall[c].wrote)
    /\ \A u, v \in DOMAIN accounts :
          accounts[u].email = accounts[v].email => u = v

\* The condition under which UpdatePassword may store a new hash.
MayUpdate(o) ==
    \/ o.caller.role = "admin"
    \/ (o.caller.email = o.email /\ PasswordMatches(o.row.password, o.old).ok)

\* C24: a step of an UpdatePassword call changes the users table only when
\* the caller is an admin or targets their own email with the old password
\* matching the hash the call read, and then only the password of the row
\* with the target email; a call that stored nothing returns an error, and a
\* non-admin targeting another user gets PERMISSION_DENIED.
C24_PasswordUpdateGuarded ==
    /\ [](\A c \in ACalls :
            (acall[c].op = "UpdatePassword" /\ acall[c].pc = "done")
            => /\ acall[c].wrote => MayUpdate(acall[c])
               /\ ~acall[c].wrote => acall[c].status \notin {"", "OK"}
               /\ (/\ acall[c].caller.role # "admin"
                   /\ acall[c].caller.email # acall[c].email)
                  => (acall[c].status = "PERMISSION_DENIED" /\ ~acall[c].wrote))
    /\ [][\A c \in ACalls :
            (/\ acall[c].op = "UpdatePassword"
             /\ acall'[c] # acall[c]
             /\ accounts' # accounts)
            => /\ MayUpdate(acall[c])
               /\ DOMAIN accounts' = DOMAIN accounts
               /\ \A u \in DOMAIN accounts :
                    accounts'[u] # accounts[u]
                    => /\ accounts[u].email = acall[c].email
                       /\ accounts'[u] =
                            [accounts[u] EXCEPT !.password = Hash(acall[c].pw)]]_vars

\* The user "u2" changed their own password giving the old one, and was
\* denied a change of the admin's password, which is as it was.
C24_Witness ==
    \E c, d \in ACalls :
        /\ acall[c].op = "UpdatePassword" /\ acall[d].op = "UpdatePassword"
        /\ acall[c].pc = "done" /\ acall[d].pc = "done"
        /\ acall[c].caller.id = "u2" /\ acall[d].caller.id = "u2"
        /\ acall[c].email = "e2" /\ acall[c].old = "pw1" /\ acall[c].pw = "pw2"
        /\ acall[c].status = "OK" /\ acall[c].wrote
        /\ accounts["u2"].password = Hash("pw2")
        /\ acall[d].email = "e1" /\ acall[d].status = "PERMISSION_DENIED"
        /\ accounts["u1"] = FirstAccounts["u1"]

RoomRows(msgs, r) == SelectSeq(msgs, LAMBDA m : m.room = r)

LastK(q, k) == IF Len(q) > k THEN SubSeq(q, Len(q) - k + 1, Len(q)) ELSE q

\* C26: the DELETE a prune pass runs for a room leaves of that room's rows
\* the keep last inserted -- all of them when the room has no more than keep
\* -- and leaves every other room's rows as they were.
C26_PruneKeepsNewest ==
    [][(ppc = "rooms" /\ ptodo' # ptodo)
       => \E r \in ptodo \ ptodo' :
            IF r \in perr'
            THEN messages' = messages
            ELSE /\ RoomRows(messages', r) = LastK(RoomRows(messages, r), pkeep)
                 /\ \A q \in Rooms \ {r} :
                        RoomRows(messages', q) = RoomRows(messages, q)]_vars

\* A pass with keep 1 has pruned "r1", which held rows 1, 3 and 4, down to
\* row 4, and has yet to come to "r2", whose row 2 is untouched.
C26_Witness ==
    /\ ppc = "rooms" /\ pkeep = 1 /\ perr = {}
    /\ ptodo = {"r2"}
    /\ messages = <<StoredRow(2, "r2"), StoredRow(4, "r1")>>

\* C27: a reaper pass that ran without error removes every room all of whose
\* messages are older than the stale threshold and retains, with its
\* messages, every room that has a message newer than the threshold.
C27_ReaperRemovesStaleOnly ==
    [][(rlog'.n = rlog.n + 1 /\ rlog'.ok)
       => \A r \in roomsTbl :
            /\ (/\ RoomTimes(messages, r) # {}
                /\ \A ts \in RoomTimes(messages, r) : now - ts > rthr)
               => r \notin roomsTbl'
            /\ (\E ts \in RoomTimes(messages, r) : now - ts < rthr)
               => /\ r \in roomsTbl'
                  /\ RoomRows(messages', r) = RoomRows(messages, r)]_vars

\* A pass has just removed "r1" and kept "r2", whose newest message is one
\* clock unit younger than the threshold.
C27_Witness ==
    /\ rlog.n > 0 /\ rlog.ok /\ rlog.at = now
    /\ rlog.removed = {"r1"}
    /\ roomsTbl = {"r2"}
    /\ RoomTimes(messages, "r1") = {}
    /\ now - rthr + 1 \in RoomTimes(messages, "r2")

\* C28 as stated: once some stream's deregisterStream has returned, no room
\* key of the registry maps to an empty subscriber map.
C28_NoEmptyRoomEntry ==
    (\E s \in Streams : pc[s] = "closed" /\ WasRegistered(s))
    => \A r \in DOMAIN streams : streams[r] # {}

\* The broadcast of a frame has gone through: its snapshot was copied and
\* every handle of the snapshot was passed to Send.
FannedOut(id) == \E e \in snapLog : e.id = id /\ SentHandles(id) = e.handles

\* C29: a frame that is being broadcast carries the server's stamp and has not
\* been enqueued; a frame that is yet to be stamped has been neither
\* broadcast nor enqueued; and every frame that was enqueued, or passed to
\* StoreMessage, had its broadcast completed before.
C29_StampBroadcastEnqueue ==
    /\ \A s \in Streams :
          pc[s] = "stamp"
          => /\ ~\E e \in snapLog : e.id = FrameId(cur[s])
             /\ ~InSeq(FrameId(cur[s]), enqLog)
    /\ \A s \in Streams :
          pc[s] \in {"bcast_rlock", "bcast_copy", "bcast_send"}
          => /\ rcv[s].at <= cur[s].ts /\ cur[s].ts <= now
             /\ ~InSeq(FrameId(cur[s]), enqLog)
             /\ FrameId(cur[s]) \notin warned
    /\ \A i \in 1..Len(enqLog) : FannedOut(enqLog[i])
    /\ \A i \in 1..Len(storeLog) : FannedOut(storeLog[i])

\* A frame the client dated in the future was stamped, sent to both
\* subscribers of its room, and then passed to StoreMessage.
C29_Witness ==
    \E e \in snapLog :
        /\ InSeq(e.id, storeLog)
        /\ Cardinality(e.handles) = 2
        /\ SentHandles(e.id) = e.handles
        /\ \E d \in delivered : d.id = e.id /\ d.rcv.ts > now /\ d.ts <= now

\* The handshake frame of stream s is the first frame it sent.
FirstId(s) == <<s, 1>>

\* Nothing of the frame has left processMessage: no snapshot, no Send, no
\* save request, no queue-full warning.
Untouched(id) ==
    /\ ~\E e \in snapLog : e.id = id
    /\ SentHandles(id) = {}
    /\ ~InSeq(id, enqLog)
    /\ id \notin warned
    /\ id \notin ProcessedIds

\* Another stream of the same user has registered for the same room, and not
\* before s did.
Rejoined(s) ==
    \E h \in Streams \ {s} :
        /\ WasRegistered(h)
        /\ ctxUser[h] = ctxUser[s]
        /\ roomID[h] = roomID[s]
        /\ regAt[h] >= regAt[s]

\* The parts of C30 that do not speak of the sender's own handle: until the
\* registration is done nothing of the handshake frame is processed; an empty
\* one is never processed; one with content is broadcast to the room it
\* names and, unless it is a file chunk, goes to the save queue or is dropped
\* with the warning, like a frame of the loop.
FirstFrameHandled(s) ==
    /\ pc[s] \in {"reg_lock", "reg_insert"}
          => firstContent[s] # "none" /\ Untouched(FirstId(s))
    /\ firstContent[s] = "empty" => Untouched(FirstId(s))
    /\ firstContent[s] = "content" /\ WasRegistered(s)
          => \/ pc[s] \in {"stamp", "bcast_rlock", "bcast_copy", "bcast_send", "persist"}
                /\ FrameId(cur[s]) = FirstId(s)
                /\ cur[s].room = roomID[s]
             \/ FirstId(s) \in ProcessedIds
    /\ \A p \in processed :
          p.id = FirstId(s)
          => /\ FannedOut(p.id)
             /\ p.chunk \/ InSeq(p.id, enqLog) \/ p.id \in warned

FailedHandles(id) == {h \in Streams : <<id, h>> \in sendErrs}

\* C31: a frame with a failed Send is still passed to every handle of its
\* snapshot; its sender's handler goes on with the frame and returns to the
\* receive loop; and unless it is a file chunk its save request is enqueued,
\* or dropped with the warning when the queue is full.
C31_SendErrorIgnored ==
    \A id \in {e[1] : e \in sendErrs} :
        /\ \/ \E s \in Streams :
                /\ pc[s] \in {"bcast_send", "persist"}
                /\ FrameId(cur[s]) = id
           \/ id \in ProcessedIds
        /\ BroadcastDone(id) => FannedOut(id)
        /\ \A p \in processed :
              p.id = id => p.chunk \/ InSeq(id, enqLog) \/ id \in warned

\* The Send to the first of two handles failed, the second handle was sent
\* the frame, the request was enqueued, and the sender processed its next
\* frame.
C31_Witness ==
    \E s \in Streams :
        /\ Cardinality(FailedHandles(<<s, 1>>)) = 1
        /\ Cardinality(SentHandles(<<s, 1>>)) = 2
        /\ \E d \in delivered : d.id = <<s, 1>>
        /\ InSeq(<<s, 1>>, enqLog)
        /\ <<s, 2>> \in ProcessedIds

\* The save requests the server holds or has stored.
SaveRequests ==
    {queue[i] : i \in 1..Len(queue)} \cup {messages[i] : i \in 1..Len(messages)}
    \cup (IF wreq = NoRequest THEN {} ELSE {wreq})

\* C32: every registry entry is keyed by the user of the verified token of
\* the stream that owns the handle, and every save request and stored
\* message carries the user of the verified token of the stream its frame
\* came in on, whatever user the frame names.
C32_IdentityFromContext ==
    /\ \A r \in DOMAIN streams : \A e \in streams[r] :
          /\ ValidateJWT(tok[e[2]], authAt[e[2]])
          /\ e[1] = tok[e[2]].uid
    /\ \A m \in SaveRequests :
          /\ ValidateJWT(tok[m.src], authAt[m.src])
          /\ m.user = tok[m.src].uid
          /\ m.user # ""

\* A frame naming another stored user was stored under its sender's user.
C32_Witness ==
    \E i \in 1..Len(messages) : \E d \in delivered :
        /\ d.id = <<messages[i].src, messages[i].n>>
        /\ d.user \in DBUsers
        /\ d.user # messages[i].user
        /\ messages[i].user = ctxUser[messages[i].src]

\* C36: every frame passed to a subscriber names, in its user_id and email,
\* the user of the verified token of the stream it was received on.
C36_DeliveredIdentity ==
    \A d \in delivered : d.user = tok[d.id[1]].uid

\* A JoinRoom call of user u writes the users table in this step.
StoresFor(u) ==
    \E c \in Joins :
        /\ jpc[c] = "storeuser"
        /\ jpc'[c] = "done"
        /\ jarg[c].user = u

\* The history and rooms columns of row u differ between the two states.
RowChanged(u) ==
    \/ u \notin DOMAIN history
    \/ history'[u] # history[u]
    \/ saved'[u] # saved[u]

\* C33: a step changes or creates the history and rooms of a users row only
\* when it is the write of a JoinRoom call whose authenticated caller is that
\* row's user, whatever email the request carries.
C33_CallerRowOnly ==
    [][\A u \in DOMAIN history' : RowChanged(u) => StoresFor(u)]_vars

\* C39: the users table holds no row with an empty id.
C39_NoEmptyUserRow == "" \notin DOMAIN history

\* C38: when two JoinRoom calls of one user for different rooms have both
\* completed, the user's rooms and history contain both rooms.
C38_NoLostUpdate ==
    \A c, d \in Joins :
        /\ c # d
        /\ jpc[c] = "done" /\ jpc[d] = "done"
        /\ jarg[c].user = jarg[d].user
        /\ jarg[c].room # jarg[d].room
        => \A r \in {jarg[c].room, jarg[d].room} :
              /\ InSeq(r, saved[jarg[c].user])
              /\ InSeq(r, history[jarg[c].user])

\* Stream h runs its deferred deregisterStream in this step.
Deregisters(h) == pc[h] = "dereg_delete" /\ pc'[h] # "dereg_delete"

\* C34: the handle the registry holds for a room and user, which is the
\* latest registrant's, stays in the registry when another stream ends: a
\* stream's deregistration removes no handle but its own.
C34_NewerHandleSurvives ==
    [][\A h \in Streams :
          Deregisters(h)
          => \A s \in Streams \ {h} :
                s \in RegistryHandles(streams) => s \in RegistryHandles(streams')]_vars

\* C35: a frame is passed only to handles of streams registered in the room
\* its sender's stream registered in, and its save request names that room.
C35_RegisteredRoomOnly ==
    /\ \A h \in Streams : \A i \in 1..Len(sendLog[h]) :
          roomID[h] = roomID[sendLog[h][i][1]]
    /\ \A m \in SaveRequests : m.room = roomID[m.src]

\* C37: no two streams have a Send in progress on the same handle.
C37_OneSendPerHandle ==
    \A s, u \in Streams :
        s # u /\ sending[s] # NoStream => sending[s] # sending[u]

\* The verdict a call of peer p would get from the limiter at this instant.
Verdict(vis, p) == Refill(getLimiter(vis, p, now), now) >= 1

\* C40: at every instant a call of any peer gets from the limiter with the
\* sweep the verdict it gets from a limiter that was fed the same calls and
\* never evicted a visitor.
C40_SweepChangesNoVerdict ==
    \A p \in Peers : Verdict(visitors, p) <=> Verdict(ever, p)

\* A peer used up its bucket and was evicted by the sweep; at that instant
\* its next call is allowed with or without the eviction.
C40_Witness ==
    \E p \in Peers :
        /\ p \in DOMAIN ever
        /\ ever[p].tokens = 0
        /\ p \notin DOMAIN visitors
        /\ Verdict(ever, p)
====
